---- MODULE Spec2Model ----
(***************************************************************************)
(* Verification model of the checkout-to-fulfilment pipeline:              *)
(*   src/unnamed/part_001      checkout-session endpoint (metadata codec,  *)
(*                             staging-store Put)                          *)
(*   src/api/stripe-webhook.js payment webhook (verifier, orchestrator,    *)
(*                             staging store, idempotency ledger)          *)
(*                                                                         *)
(* JavaScript strings are sequences of UTF-16 code units (naturals below   *)
(* 65536); Buffers are sequences of bytes; a base64 text is a sequence of  *)
(* alphabet indices 0..63 with 64 standing for the pad character '='.      *)
(***************************************************************************)
EXTENDS Integers, Sequences, FiniteSets, TLC

\* ------------------------------------------------------------------------
\* Bounds of the model
\* ------------------------------------------------------------------------

\* Number of webhook handler executions (deliveries) in one behaviour.
MaxDeliveries == 2

\* Longest tail of free code units appended to a URL of the codec check.
MaxTail == 2

\* ------------------------------------------------------------------------
\* Program constants
\* ------------------------------------------------------------------------

\* part_001:75  apolloUrl.length > 450 ? apolloUrl.substring(0, 450) + '...'
TruncateAt == 450

\* part_001:79  const chunkSize = 450
ChunkSize == 450

\* part_001:74  "Stripe has 500 char limit per field"
MaxFieldLength == 500

\* part_001:39  leads < 500 is rejected
MinLeads == 500

\* part_001:60  amount > 25000 cents is rejected
MaxAmountCents == 25000

\* ------------------------------------------------------------------------
\* JavaScript strings and values
\* ------------------------------------------------------------------------

Min(a, b) == IF a < b THEN a ELSE b

\* [c, c, ..., c] (n times)
Repeat(c, n) == [i \in 1..n |-> c]

STR_apollo_io == <<97, 112, 111, 108, 108, 111, 46, 105, 111>>  \* 'apollo.io'
STR_ellipsis  == <<46, 46, 46>>                                  \* '...'
STR_true      == <<116, 114, 117, 101>>                          \* 'true'
STR_false     == <<102, 97, 108, 115, 101>>                      \* 'false'
STR_email     == <<97, 64, 98>>                                  \* 'a@b'
REPLACEMENT   == 65533                                           \* U+FFFD

\* String.prototype.includes
Includes(s, sub) ==
    \E i \in 0..(Len(s) - Len(sub)) :
        \A k \in 1..Len(sub) : s[i + k] = sub[k]

\* String.prototype.substring(0, n)
Substring0(s, n) == SubSeq(s, 1, Min(n, Len(s)))

IsHighSurrogate(c) == c >= 55296 /\ c <= 56319
IsLowSurrogate(c)  == c >= 56320 /\ c <= 57343

\* A string with no unpaired surrogate code unit.
WellFormed(s) ==
    \A i \in 1..Len(s) :
        /\ IsHighSurrogate(s[i]) => (i < Len(s) /\ IsLowSurrogate(s[i + 1]))
        /\ IsLowSurrogate(s[i])  => (i > 1 /\ IsHighSurrogate(s[i - 1]))

\* JavaScript values that the handlers tell apart by type.
Undefined == [t |-> "undefined"]
JStr(s)   == [t |-> "string", v |-> s]
JNum(n)   == [t |-> "number", v |-> n]
JBool(b)  == [t |-> "boolean", v |-> b]

\* Truthiness of a value (!v is its negation).
Truthy(x) ==
    CASE x.t = "undefined" -> FALSE
      [] x.t = "string"    -> Len(x.v) > 0
      [] x.t = "number"    -> x.v # 0
      [] x.t = "boolean"   -> x.v

\* x === 'true'
StrictEqualsTrueString(x) == x.t = "string" /\ x.v = STR_true

\* Number.prototype.toString for a non-negative integer: its decimal digits.
RECURSIVE NumberToString(_)
NumberToString(n) ==
    IF n < 10 THEN <<48 + n>>
    ELSE Append(NumberToString(n \div 10), 48 + (n % 10))

IsDigit(c) == c >= 48 /\ c <= 57

\* parseInt of a string: the value of its longest prefix of decimal digits;
\* -1 stands for NaN (no digit at the start).
RECURSIVE ParseDigits(_, _, _)
ParseDigits(s, i, acc) ==
    IF i > Len(s) \/ ~IsDigit(s[i]) THEN acc
    ELSE ParseDigits(s, i + 1, acc * 10 + (s[i] - 48))

NaN == -1

ParseInt(x) ==
    CASE x.t = "number" -> x.v
      [] x.t = "string" ->
            IF Len(x.v) > 0 /\ IsDigit(x.v[1]) THEN ParseDigits(x.v, 1, 0) ELSE NaN
      [] OTHER -> NaN

\* ------------------------------------------------------------------------
\* Buffer.from(str) : UTF-8 encoding of a UTF-16 string
\* ------------------------------------------------------------------------

\* UTF-8 bytes of one code point.
Utf8OfCodePoint(cp) ==
    IF cp < 128 THEN <<cp>>
    ELSE IF cp < 2048 THEN <<192 + (cp \div 64), 128 + (cp % 64)>>
    ELSE IF cp < 65536 THEN
        <<224 + (cp \div 4096), 128 + ((cp \div 64) % 64), 128 + (cp % 64)>>
    ELSE <<240 + (cp \div 262144), 128 + ((cp \div 4096) % 64),
           128 + ((cp \div 64) % 64), 128 + (cp % 64)>>

\* Concatenation of pieces[lo], ..., pieces[hi] (by halves, so that the
\* evaluation depth stays logarithmic in the number of pieces).
RECURSIVE Flatten(_, _, _)
Flatten(pieces, lo, hi) ==
    IF lo > hi THEN <<>>
    ELSE IF lo = hi THEN pieces[lo]
    ELSE LET mid == (lo + hi) \div 2
         IN Flatten(pieces, lo, mid) \o Flatten(pieces, mid + 1, hi)

\* The bytes Buffer.from(s) writes for the code unit at index i: a high
\* surrogate followed by a low one gives the four bytes of the pair's code
\* point (and the low one nothing more), an unpaired surrogate gives U+FFFD.
Utf8OfUnit(s, i) ==
    LET c == s[i] IN
    IF IsHighSurrogate(c) /\ i < Len(s) /\ IsLowSurrogate(s[i + 1])
    THEN Utf8OfCodePoint(65536 + (c - 55296) * 1024 + (s[i + 1] - 56320))
    ELSE IF IsLowSurrogate(c) /\ i > 1 /\ IsHighSurrogate(s[i - 1])
    THEN <<>>
    ELSE IF IsHighSurrogate(c) \/ IsLowSurrogate(c)
    THEN Utf8OfCodePoint(REPLACEMENT)
    ELSE Utf8OfCodePoint(c)

\* Buffer.from(s) with the default 'utf8' encoding
BufferFromString(s) ==
    Flatten([i \in 1..Len(s) |-> Utf8OfUnit(s, i)], 1, Len(s))

IsCont(b, i) == i >= 1 /\ i <= Len(b) /\ b[i] >= 128 /\ b[i] < 192

\* Number of bytes of the well-formed UTF-8 sequence that starts at index i
\* of b; 0 when none starts there.
Utf8SeqLen(b, i) ==
    IF i < 1 \/ i > Len(b) THEN 0
    ELSE LET x == b[i] IN
         IF x < 128 THEN 1
         ELSE IF x >= 194 /\ x < 224 /\ IsCont(b, i + 1) THEN 2
         ELSE IF /\ x >= 224 /\ x < 240 /\ IsCont(b, i + 1) /\ IsCont(b, i + 2)
                 /\ (x - 224) * 4096 + (b[i + 1] - 128) * 64 >= 2048
                 /\ ~(    (x - 224) * 4096 + (b[i + 1] - 128) * 64 >= 55296
                       /\ (x - 224) * 4096 + (b[i + 1] - 128) * 64 <= 57343)
         THEN 3
         ELSE IF /\ x >= 240 /\ x < 245
                 /\ IsCont(b, i + 1) /\ IsCont(b, i + 2) /\ IsCont(b, i + 3)
                 /\ (x - 240) * 262144 + (b[i + 1] - 128) * 4096 >= 65536
                 /\ (x - 240) * 262144 + (b[i + 1] - 128) * 4096 < 1114112
         THEN 4
         ELSE 0

\* UTF-16 code units of a code point
CodeUnitsOf(cp) ==
    IF cp < 65536 THEN <<cp>>
    ELSE <<55296 + (cp - 65536) \div 1024, 56320 + ((cp - 65536) % 1024)>>

\* The code units buf.toString() writes for the byte at index i: the code point
\* of the well-formed sequence that starts there, nothing for a byte inside
\* such a sequence, U+FFFD for any other byte.
Utf16OfByte(b, i) ==
    LET n == Utf8SeqLen(b, i)
        x == b[i]
    IN CASE n = 1 -> <<x>>
         [] n = 2 -> <<(x - 192) * 64 + (b[i + 1] - 128)>>
         [] n = 3 -> <<(x - 224) * 4096 + (b[i + 1] - 128) * 64 + (b[i + 2] - 128)>>
         [] n = 4 -> CodeUnitsOf((x - 240) * 262144 + (b[i + 1] - 128) * 4096
                                 + (b[i + 2] - 128) * 64 + (b[i + 3] - 128))
         [] OTHER -> IF \E k \in 1..3 : Utf8SeqLen(b, i - k) > k
                     THEN <<>>
                     ELSE <<REPLACEMENT>>

\* buf.toString() with the default 'utf8' encoding
BufferToString(b) ==
    Flatten([i \in 1..Len(b) |-> Utf16OfByte(b, i)], 1, Len(b))

\* ------------------------------------------------------------------------
\* base64
\* ------------------------------------------------------------------------

PAD == 64

\* buf.toString('base64'): three bytes become four alphabet indices, the last
\* group is padded with '='.
Base64Encode(b) ==
    LET n == Len(b)
        byte(i) == IF i <= n THEN b[i] ELSE 0
    IN [k \in 1..(4 * ((n + 2) \div 3)) |->
          LET g == 3 * ((k - 1) \div 4)
              j == (k - 1) % 4
          IN CASE j = 0 -> byte(g + 1) \div 4
               [] j = 1 -> ((byte(g + 1) % 4) * 16) + (byte(g + 2) \div 16)
               [] j = 2 -> IF g + 2 > n THEN PAD
                           ELSE ((byte(g + 2) % 16) * 4) + (byte(g + 3) \div 64)
               [] j = 3 -> IF g + 3 > n THEN PAD ELSE byte(g + 3) % 64]

\* Buffer.from(text, 'base64'): decoding stops at the first pad character; a
\* trailing group of two or three characters gives one or two bytes.
Base64Decode(c) ==
    LET pads == {i \in 1..Len(c) : c[i] = PAD}
        m == IF pads = {} THEN Len(c)
             ELSE (CHOOSE i \in pads : \A j \in pads : i <= j) - 1
    IN [k \in 1..((m * 3) \div 4) |->
          LET g == 4 * ((k - 1) \div 3)
              j == (k - 1) % 3
          IN CASE j = 0 -> (c[g + 1] * 4) + (c[g + 2] \div 16)
               [] j = 1 -> ((c[g + 2] % 16) * 16) + (c[g + 3] \div 4)
               [] j = 2 -> ((c[g + 3] % 4) * 64) + c[g + 4]]

\* ------------------------------------------------------------------------
\* Metadata codec: checkout side (part_001) and webhook side (stripe-webhook.js)
\* ------------------------------------------------------------------------

\* `urlChunk${index}`
ChunkKey(i) == "urlChunk" \o ToString(i)

\* part_001:75  the human-readable truncated copy
TruncateUrl(apolloUrl) ==
    IF Len(apolloUrl) > TruncateAt
    THEN Substring0(apolloUrl, TruncateAt) \o STR_ellipsis
    ELSE apolloUrl

\* part_001:78-84  base64 of the full URL, cut into pieces of chunkSize
UrlChunks(apolloUrl) ==
    LET fullUrlBase64 == Base64Encode(BufferFromString(apolloUrl))
        n == Len(fullUrlBase64)
    IN [k \in 1..((n + ChunkSize - 1) \div ChunkSize) |->
          SubSeq(fullUrlBase64, (k - 1) * ChunkSize + 1, Min(k * ChunkSize, n))]

\* part_001:95-109  the metadata object of the checkout session: a mapping
\* from keys to strings (timestamp and orderId, which nothing reads, left out)
BuildMetadata(leads, apolloUrl, email, cleanOutput) ==
    LET urlChunks == UrlChunks(apolloUrl)
        fixed == {"leads", "apolloUrl", "email", "cleanOutput",
                  "fullUrlLength", "urlChunkCount"}
        chunkKeys == {ChunkKey(i) : i \in 0..(Len(urlChunks) - 1)}
    IN [key \in fixed \cup chunkKeys |->
          CASE key = "leads"         -> NumberToString(leads)
            [] key = "apolloUrl"     -> TruncateUrl(apolloUrl)
            [] key = "email"         -> email
            [] key = "cleanOutput"   -> IF cleanOutput THEN STR_true ELSE STR_false
            [] key = "fullUrlLength" -> NumberToString(Len(apolloUrl))
            [] key = "urlChunkCount" -> NumberToString(Len(urlChunks))
            [] OTHER -> urlChunks[1 + CHOOSE i \in 0..(Len(urlChunks) - 1) :
                                           ChunkKey(i) = key]]

\* session.metadata[key]: the string, or undefined for a key not there
MetaGet(metadata, key) ==
    IF key \in DOMAIN metadata THEN JStr(metadata[key]) ELSE Undefined

\* The metadata with one key removed ("" removes nothing).
WithoutKey(metadata, key) ==
    [k \in DOMAIN metadata \ {key} |-> metadata[k]]

\* stripe-webhook.js:164-172  the loop's concatenation of the first n chunks
RECURSIVE ConcatChunks(_, _, _)
ConcatChunks(metadata, i, chunkCount) ==
    IF i >= chunkCount THEN <<>>
    ELSE metadata[ChunkKey(i)] \o ConcatChunks(metadata, i + 1, chunkCount)

\* The reconstruction left out: always the truncated copy.
ReconstructUrl_Truncated(metadata) == MetaGet(metadata, "apolloUrl")

\* The chunks that are there, concatenated (a missing chunk skipped instead of
\* thrown on), and decoded.
ReconstructUrl_Partial(metadata) ==
    LET urlChunkCount == MetaGet(metadata, "urlChunkCount")
        chunkCount == ParseInt(urlChunkCount)
        piece(i) == IF ChunkKey(i) \in DOMAIN metadata THEN metadata[ChunkKey(i)] ELSE <<>>
    IN IF Truthy(urlChunkCount)
       THEN JStr(BufferToString(Base64Decode(
                Flatten([k \in 1..chunkCount |-> piece(k - 1)], 1, chunkCount))))
       ELSE MetaGet(metadata, "apolloUrl")

\* stripe-webhook.js:155-182  the URL the fallback path carries forward: the
\* decoded chunks when urlChunkCount is there and every chunk below it is,
\* the truncated copy (or undefined) otherwise
ReconstructUrl(metadata) ==
    LET apolloUrl == MetaGet(metadata, "apolloUrl")
        urlChunkCount == MetaGet(metadata, "urlChunkCount")
    IN IF Truthy(urlChunkCount)
       THEN LET chunkCount == ParseInt(urlChunkCount)
            IN IF \E i \in 0..(chunkCount - 1) : ~Truthy(MetaGet(metadata, ChunkKey(i)))
               THEN apolloUrl     \* throw new Error(`Missing chunk ${i}`), caught
               ELSE JStr(BufferToString(Base64Decode(
                             ConcatChunks(metadata, 0, chunkCount))))
       ELSE apolloUrl

\* ------------------------------------------------------------------------
\* State
\* ------------------------------------------------------------------------

VARIABLES
    stripe,           \* payment gateway: session id -> the session's metadata
    staging,          \* Order Staging Store: /tmp/apollo-urls/<id>.json
    ledger,           \* Idempotency Ledger: /tmp/processed-sessions/<id>.processed
    emailWebhookUrl,  \* whether process.env.EMAIL_WEBHOOK_URL is set
    jobs,             \* job-trigger requests sent to the scraping service
    notifs,           \* notification requests sent to the e-mail channel
    ops,              \* storage operations performed, by handler execution
    pc,               \* webhook handler execution -> its position
    req,              \* webhook handler execution -> the request it serves
    resp,             \* webhook handler execution -> HTTP status sent (0: none)
    local,            \* webhook handler execution -> storedData and fileName
    run,              \* webhook handler execution -> what it went through
    cpc,              \* codec check: position
    cUrl,             \* codec check: the URL submitted at checkout
    cMeta,            \* codec check: the metadata the event carries
    cOut,             \* codec check: the URL the webhook carries forward
    cfgEnv,           \* configuration endpoint: two process environments
    cfgReq,           \* configuration endpoint: the method of the request
    cfgRes,           \* configuration endpoint: the response in each environment
    cleanIn,          \* actor script: the item given to cleanData
    cleanOut,         \* actor script: the item cleanData returned
    cdHeap,           \* cleanData call: the objects of its input, by reference
    cdStack,          \* cleanData call: the calls of cleanData in progress
    cdStatus,         \* cleanData call: running, returned or thrown
    cdOut,            \* cleanData call: the object the outermost call returned
    apc,              \* actor script: position in Apify.main
    aIn,              \* actor script: the run's input and what the platform holds
    aLocal,           \* actor script: apolloRun, scrapedData, processedData, error
    aSent             \* actor script: requests made to the results webhook

orchVars == <<stripe, staging, ledger, emailWebhookUrl, jobs, notifs,
              ops, pc, req, resp, local, run>>
codecVars == <<cpc, cUrl, cMeta, cOut>>
callVars == <<cdHeap, cdStack, cdStatus, cdOut>>
actorVars == <<apc, aIn, aLocal, aSent>>
pureVars == <<cfgEnv, cfgReq, cfgRes, cleanIn, cleanOut, callVars, actorVars>>
vars == <<stripe, staging, ledger, emailWebhookUrl, jobs, notifs,
          ops, pc, req, resp, local, run, cpc, cUrl, cMeta, cOut,
          cfgEnv, cfgReq, cfgRes, cleanIn, cleanOut,
          cdHeap, cdStack, cdStatus, cdOut, apc, aIn, aLocal, aSent>>

\* Session ids, in the order the gateway issues them.
SessionSeq == <<"cs_1", "cs_2">>
SessionIds == {SessionSeq[i] : i \in 1..Len(SessionSeq)}
IssuedBefore(o, s) ==
    \E i, j \in 1..Len(SessionSeq) : i < j /\ SessionSeq[i] = o /\ SessionSeq[j] = s
Deliveries == 1..MaxDeliveries

NoSession == [t |-> "none"]
NoOrder   == [t |-> "none"]
NoRequest == [method |-> "", sig |-> "", body |-> "", type |-> "",
              session |-> "", drop |-> ""]
NoData    == [t |-> "none"]
FreshRun  == [phase |-> "Received", fallback |-> FALSE, trig |-> "none",
              notif |-> "none", faults |-> {}]

\* ------------------------------------------------------------------------
\* Inputs
\* ------------------------------------------------------------------------

\* 'https://app.apollo.io/' is longer; the model's URLs are 'apollo.io'
\* followed by n times 'x' and a tail.
UrlOf(n, tail) == STR_apollo_io \o Repeat(120, n) \o tail

ShortUrl == UrlOf(3, <<>>)
OtherUrl == UrlOf(2, <<233>>)
\* longer than the truncation bound, with characters of two, three and four
\* UTF-8 bytes; its base64 text fills two chunks
LongUrl  == UrlOf(TruncateAt, <<233, 8364, 55357, 56832>>)

\* Request bodies that pass the checkout validation: the customer of the
\* first session asks for cleaned output, the customer of the second does not.
ValidBody(s) ==
    IF s = SessionSeq[1]
    THEN [leads |-> 500, apolloUrl |-> ShortUrl, email |-> STR_email, cleanOutput |-> TRUE]
    ELSE [leads |-> 1000, apolloUrl |-> OtherUrl, email |-> STR_email, cleanOutput |-> FALSE]

\* Request bodies the validation rejects.
InvalidBodies ==
    { [leads |-> 499,  apolloUrl |-> ShortUrl, email |-> STR_email, cleanOutput |-> FALSE],
      [leads |-> 500,  apolloUrl |-> <<120, 120>>, email |-> STR_email, cleanOutput |-> FALSE],
      [leads |-> 500,  apolloUrl |-> ShortUrl, email |-> <<97>>, cleanOutput |-> FALSE],
      [leads |-> 50001, apolloUrl |-> ShortUrl, email |-> STR_email, cleanOutput |-> FALSE] }

\* Request bodies of the checkout endpoint.
CheckoutBodies(s) == {ValidBody(s)} \cup InvalidBodies

\* Request bodies of the long-URL specification.
LongBodies ==
    { [leads |-> 1000, apolloUrl |-> LongUrl, email |-> STR_email, cleanOutput |-> TRUE] }

\* Metadata keys an event may arrive without ("": the metadata as created).
DropKeys == {"", "email", "urlChunk0"}
LongDropKeys == {"", "leads", "email", "apolloUrl", "urlChunkCount",
                 "urlChunk0", "urlChunk1"}

\* Requests to the webhook endpoint that do not carry a payment-completed
\* event of a session.
PlainRequests ==
    { [NoRequest EXCEPT !.method = "GET"],
      [NoRequest EXCEPT !.method = "POST", !.sig = "mismatch", !.body = "json"],
      [NoRequest EXCEPT !.method = "POST", !.sig = "missing", !.body = "json"],
      [NoRequest EXCEPT !.method = "POST", !.sig = "valid", !.body = "malformed"],
      [NoRequest EXCEPT !.method = "POST", !.sig = "valid", !.body = "json",
                        !.type = "payment_intent.succeeded"] }

\* Requests that claim a payment-completed event of session s; only the
\* gateway can sign one.
SessionRequests(s, keys) ==
    { [method |-> "POST", sig |-> "valid", body |-> "json",
       type |-> "checkout.session.completed", session |-> s, drop |-> k] :
         k \in keys }
    \cup
    { [method |-> "POST", sig |-> "mismatch", body |-> "json",
       type |-> "checkout.session.completed", session |-> s, drop |-> ""] }

\* Outcomes of an outbound HTTP call.
TriggerOutcomes == {"ok", "badBody", "non2xx", "neterr"}
NotifyOutcomes  == {"ok", "non2xx", "neterr"}

\* ------------------------------------------------------------------------
\* Checkout endpoint (part_001)
\* ------------------------------------------------------------------------

\* part_001:52  Math.round(leads * 0.005 * 100) for a whole number of leads
AmountCents(leads) == (leads + 1) \div 2

\* part_001:38-62  the status the validation answers with; 0 when it passes
CheckoutRejection(body) ==
    IF body.leads = 0 \/ body.leads < MinLeads THEN 400
    ELSE IF Len(body.apolloUrl) = 0 \/ ~Includes(body.apolloUrl, STR_apollo_io) THEN 400
    ELSE IF Len(body.email) = 0 \/ ~Includes(body.email, <<64>>) THEN 400
    ELSE IF AmountCents(body.leads) < 250 THEN 400
    ELSE IF AmountCents(body.leads) > MaxAmountCents THEN 400
    ELSE 0

\* part_001:15-27  storeApolloUrl: the record written to the staging store
\* (JSON.stringify, then JSON.parse at the reader, keep each field's type)
StoredRecord(fullUrl, email, leads, cleanOutput) ==
    [t |-> "order", apolloUrl |-> JStr(fullUrl), email |-> JStr(email),
     leads |-> JNum(leads), cleanOutput |-> JBool(cleanOutput)]

\* part_001:29-159  a checkout request that the gateway answers with the new
\* session s.  written: whether fs.writeFileSync of storeApolloUrl succeeds (it
\* throws otherwise, after the session exists at the gateway).
Checkout(s, body, written) ==
    /\ stripe[s].t = "none"
    /\ \A o \in SessionIds : IssuedBefore(o, s) => stripe[o].t # "none"
    /\ IF CheckoutRejection(body) # 0
       THEN UNCHANGED <<stripe, staging>>
       ELSE /\ stripe' = [stripe EXCEPT ![s] =
                            [t |-> "session",
                             metadata |-> BuildMetadata(body.leads, body.apolloUrl,
                                                        body.email, body.cleanOutput)]]
            /\ staging' = IF written
                          THEN [staging EXCEPT ![s] =
                                   StoredRecord(body.apolloUrl, body.email,
                                                body.leads, body.cleanOutput)]
                          ELSE staging
    /\ UNCHANGED <<ledger, emailWebhookUrl, jobs, notifs, ops, pc, req, resp,
                   local, run, codecVars, pureVars>>

\* ------------------------------------------------------------------------
\* Webhook endpoint (stripe-webhook.js): storage helpers
\* ------------------------------------------------------------------------

\* The ledger check left out.
isSessionProcessed_Never(sessionId) == FALSE

\* stripe-webhook.js:16-20
isSessionProcessed(sessionId) == sessionId \in ledger

\* One marker file shared by all sessions instead of one per session.
markSessionProcessed_SharedMarker(sessionId) == ledger \cup SessionIds

\* stripe-webhook.js:23-31  the ledger after markSessionProcessed
markSessionProcessed(sessionId) == ledger \cup {sessionId}

\* stripe-webhook.js:33-68  the record of the session, or null (NoData) when
\* there is no file or reading it throws (readable = FALSE)
retrieveApolloUrl(sessionId, readable) ==
    IF staging[sessionId].t # "none" /\ readable THEN staging[sessionId] ELSE NoData

\* stripe-webhook.js:70-80  the staging store after cleanupApolloUrl; an error
\* of unlinkSync (deletable = FALSE) is caught and logged
cleanupApolloUrl(sessionId, deletable) ==
    IF staging[sessionId].t # "none" /\ deletable
    THEN [staging EXCEPT ![sessionId] = NoOrder]
    ELSE staging

Op(d, op, key) == [by |-> d, op |-> op, key |-> key]

\* ------------------------------------------------------------------------
\* Webhook endpoint: handler
\* ------------------------------------------------------------------------

\* The body parsed without the signature check.
Verified_Unchecked(r) == r.body = "json"

\* stripe-webhook.js:93-110  stripe.webhooks.constructEvent returns the event
\* only for a body signed with the endpoint secret that parses as JSON
Verified(r) == r.sig = "valid" /\ r.body = "json"

\* event.data.object of a payment-completed event for the session of r
EventSession(r) ==
    [id |-> r.session,
     metadata |-> WithoutKey(stripe[r.session].metadata, r.drop)]

\* The check of line 150 looking at leads only.
RecoverFromMetadata_LeadsOnly(metadata) ==
    LET leads == MetaGet(metadata, "leads")
    IN IF ~Truthy(leads) THEN NoData
       ELSE [t |-> "order", apolloUrl |-> ReconstructUrl(metadata),
             email |-> MetaGet(metadata, "email"),
             leads |-> leads, cleanOutput |-> MetaGet(metadata, "cleanOutput")]

\* stripe-webhook.js:149-184  order fields rebuilt from the metadata; NoData
\* when leads or email is missing
RecoverFromMetadata(metadata) ==
    LET leads == MetaGet(metadata, "leads")
        email == MetaGet(metadata, "email")
    IN IF ~Truthy(leads) \/ ~Truthy(email) THEN NoData
       ELSE [t |-> "order", apolloUrl |-> ReconstructUrl(metadata), email |-> email,
             leads |-> leads, cleanOutput |-> MetaGet(metadata, "cleanOutput")]

\* stripe-webhook.js:309-316  generateRandomFileName: six characters out of 36
FileNames == {"Q7K2ZD"}

\* stripe-webhook.js:204-212, 246-252  the payload of the job trigger
TriggerPayload(data, fileName) ==
    [url |-> data.apolloUrl, totalRecords |-> ParseInt(data.leads),
     fileName |-> fileName, email |-> data.email,
     cleanOutput |-> StrictEqualsTrueString(data.cleanOutput)]

\* stripe-webhook.js:336-344  the payload of the notification
EmailPayload(data, fileName) ==
    [email |-> data.email, leadCount |-> ParseInt(data.leads),
     apolloUrl |-> data.apolloUrl, fileName |-> fileName]

\* The handler answers with a status and ends.
Respond(d, status) ==
    /\ resp' = [resp EXCEPT ![d] = status]
    /\ pc' = [pc EXCEPT ![d] = "done"]

\* handleSuccessfulPayment returns (stripe-webhook.js:140, 152, 225-231); the
\* handler goes on at its await (stripe-webhook.js:118).
Return(d, phase) ==
    /\ pc' = [pc EXCEPT ![d] = "ack"]
    /\ run' = [run EXCEPT ![d].phase = phase]

\* stripe-webhook.js:133-212, 233-276  handleSuccessfulPayment up to its first
\* await, the fetch of triggerApolloScraper
HandleSuccessfulPayment(d, session, readable, fileName) ==
    LET id == session.id
        found == retrieveApolloUrl(id, readable)
        storedData == IF found.t # "none" THEN found
                      ELSE RecoverFromMetadata(session.metadata)
        readFault == staging[id].t # "none" /\ ~readable
    IN IF isSessionProcessed(id)
       THEN /\ Return(d, "Deduplicated")
            /\ ops' = ops \cup {Op(d, "ledgerRead", id)}
            /\ UNCHANGED <<jobs, local, resp>>
       ELSE /\ ops' = ops \cup {Op(d, "ledgerRead", id), Op(d, "stagingRead", id)}
            /\ IF storedData.t = "none"
               THEN \* Missing required metadata
                    /\ pc' = [pc EXCEPT ![d] = "ack"]
                    /\ run' = [run EXCEPT ![d].phase = "RecoveryError",
                                          ![d].fallback = TRUE,
                                          ![d].faults = IF readFault THEN {"read"} ELSE {}]
                    /\ UNCHANGED <<jobs, local, resp>>
               ELSE IF storedData.apolloUrl.t = "undefined"
               THEN \* apolloUrl.length throws, caught at line 225
                    /\ pc' = [pc EXCEPT ![d] = "ack"]
                    /\ run' = [run EXCEPT ![d].phase = "Errored",
                                          ![d].fallback = TRUE,
                                          ![d].faults = IF readFault THEN {"read"} ELSE {}]
                    /\ UNCHANGED <<jobs, local, resp>>
               ELSE /\ pc' = [pc EXCEPT ![d] = "trigger"]
                    /\ run' = [run EXCEPT ![d].phase = "Triggering",
                                          ![d].fallback = (found.t = "none"),
                                          ![d].faults = IF readFault THEN {"read"} ELSE {}]
                    /\ local' = [local EXCEPT ![d] =
                                    [t |-> "data", storedData |-> storedData,
                                     fileName |-> fileName]]
                    /\ jobs' = jobs \cup
                          {[by |-> d, session |-> id, status |-> "sent",
                            payload |-> TriggerPayload(storedData, fileName)]}
                    /\ UNCHANGED resp

\* The handler looking the event's object up in the ledger before it
\* switches on the type of the event.
Receive_LooksUpFirst(d, r, readable, fileName) ==
    /\ pc[d] = "idle"
    /\ \A e \in Deliveries : e < d => pc[e] # "idle"
    /\ r.session # "" => stripe[r.session].t # "none"
    /\ req' = [req EXCEPT ![d] = r]
    /\ IF r.method # "POST"
       THEN Respond(d, 405) /\ UNCHANGED <<jobs, local, run, ops>>
       ELSE IF ~Verified(r)
       THEN Respond(d, 400) /\ UNCHANGED <<jobs, local, run, ops>>
       ELSE IF r.type = "checkout.session.completed"
       THEN HandleSuccessfulPayment(d, EventSession(r), readable, fileName)
       ELSE /\ Respond(d, 200)
            /\ run' = [run EXCEPT ![d].phase = "Ignored"]
            /\ ops' = ops \cup {Op(d, "ledgerRead", r.session)}
            /\ UNCHANGED <<jobs, local>>
    /\ UNCHANGED <<stripe, staging, ledger, emailWebhookUrl, notifs, codecVars, pureVars>>

\* stripe-webhook.js:82-131  a request arrives: everything up to the first
\* await that leaves the handler waiting on the network or, for a request that
\* needs none, up to the response.  (Reading the body, lines 95-99, touches no
\* state shared with other executions.)
Receive(d, r, readable, fileName) ==
    /\ pc[d] = "idle"
    /\ \A e \in Deliveries : e < d => pc[e] # "idle"
    /\ r.session # "" => stripe[r.session].t # "none"
    /\ req' = [req EXCEPT ![d] = r]
    /\ IF r.method # "POST"
       THEN Respond(d, 405) /\ UNCHANGED <<jobs, local, run, ops>>
       ELSE IF ~Verified(r)
       THEN Respond(d, 400) /\ UNCHANGED <<jobs, local, run, ops>>
       ELSE IF r.type = "checkout.session.completed"
       THEN HandleSuccessfulPayment(d, EventSession(r), readable, fileName)
       ELSE /\ Respond(d, 200)
            /\ run' = [run EXCEPT ![d].phase = "Ignored"]
            /\ UNCHANGED <<jobs, local, ops>>
    /\ UNCHANGED <<stripe, staging, ledger, emailWebhookUrl, notifs, codecVars, pureVars>>

\* The job request of execution d that is awaiting its response.
PendingJob(d) == CHOOSE j \in jobs : j.by = d /\ j.status = "sent"

\* stripe-webhook.js:318-355  sendEmailWebhook up to its fetch
SendEmailWebhook(d) ==
    IF emailWebhookUrl
    THEN /\ notifs' = notifs \cup
              {[by |-> d, status |-> "sent",
                payload |-> EmailPayload(local[d].storedData, local[d].fileName)]}
         /\ pc' = [pc EXCEPT ![d] = "notify"]
         /\ run' = [run EXCEPT ![d].phase = "Notifying", ![d].trig = "ok"]
         /\ UNCHANGED <<staging, ledger, ops>>
    ELSE /\ pc' = [pc EXCEPT ![d] = "finalize"]
         /\ run' = [run EXCEPT ![d].phase = "Notifying", ![d].trig = "ok",
                               ![d].notif = "skipped"]
         /\ UNCHANGED <<notifs, staging, ledger, ops>>

\* The catch block with the clean-up that line 229 comments out.
TriggerFailed_CleansUp(d) ==
    /\ pc' = [pc EXCEPT ![d] = "ack"]
    /\ run' = [run EXCEPT ![d].phase = "Errored", ![d].trig = "fail"]
    /\ staging' = cleanupApolloUrl(req[d].session, TRUE)
    /\ ops' = ops \cup {Op(d, "stagingDelete", req[d].session)}
    /\ UNCHANGED <<notifs, ledger>>

\* The failure swallowed inside triggerApolloScraper: the handler goes on to
\* its bookkeeping.
TriggerFailed_GoesOn(d) ==
    /\ pc' = [pc EXCEPT ![d] = "finalize"]
    /\ run' = [run EXCEPT ![d].trig = "fail", ![d].notif = "skipped"]
    /\ UNCHANGED <<notifs, staging, ledger, ops>>

\* stripe-webhook.js:297-306, 225-231  the trigger threw: logged, rethrown,
\* caught by handleSuccessfulPayment, which returns
TriggerFailed(d) ==
    /\ pc' = [pc EXCEPT ![d] = "ack"]
    /\ run' = [run EXCEPT ![d].phase = "Errored", ![d].trig = "fail"]
    /\ UNCHANGED <<notifs, staging, ledger, ops>>

\* stripe-webhook.js:268-295, 214-215  the job service answers (or the
\* connection fails): ok is a 2xx response with a JSON body, badBody a 2xx
\* response whose body response.json() rejects
TriggerResponse(d, outcome) ==
    /\ pc[d] = "trigger"
    /\ jobs' = (jobs \ {PendingJob(d)}) \cup
               {[PendingJob(d) EXCEPT !.status =
                    CASE outcome = "ok"      -> "accepted"
                      [] outcome = "badBody" -> "accepted"
                      [] outcome = "non2xx"  -> "rejected"
                      [] outcome = "neterr"  -> "failed"]}
    /\ IF outcome = "ok" THEN SendEmailWebhook(d) ELSE TriggerFailed(d)
    /\ UNCHANGED <<stripe, emailWebhookUrl, req, resp, local, codecVars, pureVars>>

PendingNotif(d) == CHOOSE n \in notifs : n.by = d /\ n.status = "sent"

\* A failed notification rethrown: handleSuccessfulPayment catches it and
\* returns without its bookkeeping.
NotifyResponse_FailureAborts(d, outcome) ==
    /\ pc[d] = "notify"
    /\ notifs' = (notifs \ {PendingNotif(d)}) \cup
                 {[PendingNotif(d) EXCEPT !.status = outcome]}
    /\ pc' = [pc EXCEPT ![d] = IF outcome = "ok" THEN "finalize" ELSE "ack"]
    /\ run' = [run EXCEPT ![d].notif = outcome,
                          ![d].phase = IF outcome = "ok" THEN @ ELSE "Errored"]
    /\ UNCHANGED <<stripe, staging, ledger, emailWebhookUrl, jobs, ops,
                   req, resp, local, codecVars, pureVars>>

\* stripe-webhook.js:357-378  the channel answers (or the connection fails):
\* every outcome is logged and sendEmailWebhook returns normally
NotifyResponse(d, outcome) ==
    /\ pc[d] = "notify"
    /\ notifs' = (notifs \ {PendingNotif(d)}) \cup
                 {[PendingNotif(d) EXCEPT !.status = outcome]}
    /\ pc' = [pc EXCEPT ![d] = "finalize"]
    /\ run' = [run EXCEPT ![d].notif = outcome]
    /\ UNCHANGED <<stripe, staging, ledger, emailWebhookUrl, jobs, ops,
                   req, resp, local, codecVars, pureVars>>

\* stripe-webhook.js:217-231  after the notification: cleanupApolloUrl, then
\* markSessionProcessed, whose fs.writeFileSync may throw (writable = FALSE:
\* caught at line 225)
Finalize(d, deletable, writable) ==
    LET id == req[d].session
        delFault == staging[id].t # "none" /\ ~deletable
    IN /\ pc[d] = "finalize"
       /\ staging' = cleanupApolloUrl(id, deletable)
       /\ ledger' = IF writable THEN markSessionProcessed(id) ELSE ledger
       /\ ops' = ops \cup {Op(d, "stagingDelete", id)}
                     \cup (IF writable THEN {Op(d, "ledgerWrite", id)} ELSE {})
       /\ pc' = [pc EXCEPT ![d] = "ack"]
       /\ run' = [run EXCEPT
                    ![d].phase = IF writable THEN "Finalized" ELSE "Errored",
                    ![d].faults = @ \cup (IF delFault THEN {"delete"} ELSE {})
                                    \cup (IF writable THEN {} ELSE {"mark"})]
       /\ UNCHANGED <<stripe, emailWebhookUrl, jobs, notifs, req, resp,
                      local, codecVars, pureVars>>

\* A duplicate answered as a conflict instead of acknowledged.
Ack_DuplicateRejected(d) ==
    /\ pc[d] = "ack"
    /\ Respond(d, IF run[d].phase = "Deduplicated" THEN 409 ELSE 200)
    /\ UNCHANGED <<stripe, staging, ledger, emailWebhookUrl, jobs, notifs,
                   ops, req, local, run, codecVars, pureVars>>

\* stripe-webhook.js:130  res.status(200).json({ received: true })
Ack(d) ==
    /\ pc[d] = "ack"
    /\ Respond(d, 200)
    /\ UNCHANGED <<stripe, staging, ledger, emailWebhookUrl, jobs, notifs,
                   ops, req, local, run, codecVars, pureVars>>

\* The process dies (or the platform ends the invocation) while the handler
\* is waiting: nothing after its current await runs.
Crash(d) ==
    /\ pc[d] \in {"trigger", "notify", "finalize", "ack"}
    /\ pc' = [pc EXCEPT ![d] = "crashed"]
    /\ UNCHANGED <<stripe, staging, ledger, emailWebhookUrl, jobs, notifs,
                   ops, req, resp, local, run, codecVars, pureVars>>

\* ------------------------------------------------------------------------
\* Specification of the pipeline
\* ------------------------------------------------------------------------

InitOrch ==
    /\ stripe = [s \in SessionIds |-> NoSession]
    /\ staging = [s \in SessionIds |-> NoOrder]
    /\ ledger = {}
    /\ jobs = {}
    /\ notifs = {}
    /\ ops = {}
    /\ pc = [d \in Deliveries |-> "idle"]
    /\ req = [d \in Deliveries |-> NoRequest]
    /\ resp = [d \in Deliveries |-> 0]
    /\ local = [d \in Deliveries |-> NoData]
    /\ run = [d \in Deliveries |-> FreshRun]

\* The configuration endpoint and the actor script take no part.
CallOff ==
    cdHeap = <<>> /\ cdStack = <<>> /\ cdStatus = "off" /\ cdOut = <<>>

ActorOff ==
    apc = "off" /\ aIn = <<>> /\ aLocal = <<>> /\ aSent = <<>>

PureOff ==
    /\ cfgEnv = <<>> /\ cfgReq = "" /\ cfgRes = <<>>
    /\ cleanIn = <<>> /\ cleanOut = NoData
    /\ CallOff /\ ActorOff

CodecOff ==
    cpc = "off" /\ cUrl = <<>> /\ cMeta = <<>> /\ cOut = Undefined

Init ==
    /\ InitOrch
    /\ emailWebhookUrl \in BOOLEAN
    /\ cpc = "off" /\ cUrl = <<>> /\ cMeta = <<>> /\ cOut = Undefined
    /\ PureOff

Next ==
    \/ \E s \in SessionIds, written \in BOOLEAN :
          \E body \in CheckoutBodies(s) : Checkout(s, body, written)
    \/ \E d \in Deliveries, s \in SessionIds, readable \in BOOLEAN,
          fileName \in FileNames :
          \E r \in PlainRequests \cup SessionRequests(s, DropKeys) :
             Receive(d, r, readable, fileName)
    \/ \E d \in Deliveries, outcome \in TriggerOutcomes : TriggerResponse(d, outcome)
    \/ \E d \in Deliveries, outcome \in NotifyOutcomes : NotifyResponse(d, outcome)
    \/ \E d \in Deliveries, deletable \in BOOLEAN, writable \in BOOLEAN :
          Finalize(d, deletable, writable)
    \/ \E d \in Deliveries : Ack(d)
    \/ \E d \in Deliveries : Crash(d)

Spec == Init /\ [][Next]_vars

\* ------------------------------------------------------------------------
\* Specification of the pipeline for one order with a long URL
\* ------------------------------------------------------------------------

\* One session whose URL is longer than the truncation bound, one handler
\* execution, every metadata key droppable.
NextLong ==
    \/ \E written \in BOOLEAN, body \in LongBodies :
          Checkout(SessionSeq[1], body, written)
    \/ \E readable \in BOOLEAN, fileName \in FileNames :
          \E r \in PlainRequests \cup SessionRequests(SessionSeq[1], LongDropKeys) :
             Receive(1, r, readable, fileName)
    \/ \E outcome \in TriggerOutcomes : TriggerResponse(1, outcome)
    \/ \E outcome \in NotifyOutcomes : NotifyResponse(1, outcome)
    \/ \E deletable \in BOOLEAN, writable \in BOOLEAN : Finalize(1, deletable, writable)
    \/ Ack(1)
    \/ Crash(1)

SpecLong == Init /\ [][NextLong]_vars

\* ------------------------------------------------------------------------
\* Specification of the pipeline for one session, with progress
\* ------------------------------------------------------------------------

\* One paid session and its deliveries, in an invocation that is not ended
\* from outside.
NextLive ==
    \/ \E written \in BOOLEAN :
          Checkout(SessionSeq[1], ValidBody(SessionSeq[1]), written)
    \/ \E d \in Deliveries, readable \in BOOLEAN, fileName \in FileNames :
          \E r \in SessionRequests(SessionSeq[1], {""}) :
             Receive(d, r, readable, fileName)
    \/ \E d \in Deliveries, outcome \in TriggerOutcomes : TriggerResponse(d, outcome)
    \/ \E d \in Deliveries, outcome \in NotifyOutcomes : NotifyResponse(d, outcome)
    \/ \E d \in Deliveries, deletable \in BOOLEAN, writable \in BOOLEAN :
          Finalize(d, deletable, writable)
    \/ \E d \in Deliveries : Ack(d)

\* Deliveries one after the other, with the process kept alive and the
\* storage working: a request arrives only when no execution is under way,
\* every Pending Order is written and read, every delete and ledger write
\* succeeds.
NoneUnderWay == \A e \in Deliveries : pc[e] \in {"idle", "done"}

SerialReceive(d, r, fileName) == NoneUnderWay /\ Receive(d, r, TRUE, fileName)

NextSerial ==
    \/ \E s \in SessionIds : \E body \in CheckoutBodies(s) : Checkout(s, body, TRUE)
    \/ \E d \in Deliveries, s \in SessionIds, fileName \in FileNames :
          \E r \in PlainRequests \cup SessionRequests(s, DropKeys) :
             SerialReceive(d, r, fileName)
    \/ \E d \in Deliveries, outcome \in TriggerOutcomes : TriggerResponse(d, outcome)
    \/ \E d \in Deliveries, outcome \in NotifyOutcomes : NotifyResponse(d, outcome)
    \/ \E d \in Deliveries : Finalize(d, TRUE, TRUE)
    \/ \E d \in Deliveries : Ack(d)

SpecSerial == Init /\ [][NextSerial]_vars

\* stripe-webhook.js:118-130  once handleSuccessfulPayment has returned, the
\* handler runs on to its response without waiting on anything.
SpecLive ==
    Init /\ [][NextLive]_vars /\ \A d \in Deliveries : WF_vars(Ack(d))

\* ------------------------------------------------------------------------
\* Specification of the metadata codec alone
\* ------------------------------------------------------------------------

\* Code units a URL of the codec check ends with: 'a', U+00E9, U+20AC, a high
\* surrogate and a low surrogate (in this order they make U+1F600).
TailUnits == {97, 233, 8364, 55357, 56832}
Tails == UNION {[1..k -> TailUnits] : k \in 0..MaxTail}

\* Numbers of 'x' after 'apollo.io': with no tail the URL has 9, 336, 337,
\* 338, 450, 451 and 675 code units (base64 texts of 12, 448, 452, 452, 600,
\* 604 and 900 characters, that is one chunk, one chunk, two chunks, ..., and
\* exactly two full chunks).
CodecPads == {0, 327, 328, 329, 441, 442, 666}

CodecUrls ==
    {UrlOf(n, tail) : n \in CodecPads, tail \in Tails} \cup {<<120, 120, 120>>}

ChunkCountOf(metadata) == ParseInt(MetaGet(metadata, "urlChunkCount"))

\* Some chunk below urlChunkCount is missing from the metadata.
ChunkMissing(metadata) ==
    \E i \in 0..(ChunkCountOf(metadata) - 1) : ChunkKey(i) \notin DOMAIN metadata

InitCodec ==
    /\ InitOrch
    /\ emailWebhookUrl = FALSE
    /\ cpc = "input"
    /\ cUrl \in CodecUrls
    /\ cMeta = <<>>
    /\ cOut = Undefined
    /\ PureOff

\* part_001:43-45, 74-109  the checkout endpoint validates the URL and builds
\* the metadata
CodecEncode ==
    /\ cpc = "input"
    /\ IF Len(cUrl) = 0 \/ ~Includes(cUrl, STR_apollo_io)
       THEN cpc' = "rejected" /\ UNCHANGED cMeta
       ELSE /\ cpc' = "encoded"
            /\ cMeta' = BuildMetadata(MinLeads, cUrl, STR_email, FALSE)
    /\ UNCHANGED <<cUrl, cOut, orchVars, pureVars>>

\* The event arrives with the metadata as built (key = "") or without one of
\* its chunks.
CodecDeliver(key) ==
    /\ cpc = "encoded"
    /\ key = "" \/ \E i \in 0..(ChunkCountOf(cMeta) - 1) : key = ChunkKey(i)
    /\ cMeta' = WithoutKey(cMeta, key)
    /\ cpc' = "delivered"
    /\ UNCHANGED <<cUrl, cOut, orchVars, pureVars>>

\* stripe-webhook.js:155-182  the fallback path rebuilds the URL
CodecDecode ==
    /\ cpc = "delivered"
    /\ cOut' = ReconstructUrl(cMeta)
    /\ cpc' = "decoded"
    /\ UNCHANGED <<cUrl, cMeta, orchVars, pureVars>>

NextCodec ==
    \/ CodecEncode
    \/ \E i \in 0..2 : CodecDeliver(ChunkKey(i))
    \/ CodecDeliver("")
    \/ CodecDecode

SpecCodec == InitCodec /\ [][NextCodec]_vars

\* ------------------------------------------------------------------------
\* Configuration endpoint (part_000)
\* ------------------------------------------------------------------------

\* process.env: a variable that is not set reads as "" here (each use is
\* process.env.X || default, which treats unset and empty alike).
ApifyTokens == {"apify_api_A", "apify_api_B"}
ActorIds == {"", "me/my-actor"}
EmailWebhookUrls == {"", "https://hooks.example/mail"}
StripeSecretKeys == {"sk_live_A", "sk_live_B"}
WebhookSecrets == {"whsec_A", "whsec_B"}

Envs ==
    [APIFY_TOKEN : ApifyTokens, APOLLO_ACTOR_ID : ActorIds,
     EMAIL_WEBHOOK_URL : EmailWebhookUrls,
     STRIPE_SECRET_KEY : StripeSecretKeys,
     STRIPE_WEBHOOK_SECRET : WebhookSecrets]

\* The variables that hold no secret are the same in both environments.
SameButSecrets(a, b) ==
    /\ a.APOLLO_ACTOR_ID = b.APOLLO_ACTOR_ID
    /\ a.EMAIL_WEBHOOK_URL = b.EMAIL_WEBHOOK_URL

ConfigMethods == {"GET", "OPTIONS", "POST"}

\* a || b on strings
OrElse(a, b) == IF a = "" THEN b ELSE a

\* part_000:2-57  the response of the configuration endpoint
ConfigResponse(method, env) ==
    IF method = "OPTIONS" THEN [status |-> 200, body |-> NoData]
    ELSE IF method = "GET"
    THEN [status |-> 200,
          body |-> [t |-> "config",
                    APIFY_TOKEN |-> OrElse(env.APIFY_TOKEN, ""),
                    APOLLO_ACTOR_ID |-> OrElse(env.APOLLO_ACTOR_ID,
                                               "code_crafter/apollo-io-scraper"),
                    EMAIL_WEBHOOK_URL |-> OrElse(env.EMAIL_WEBHOOK_URL, ""),
                    DEFAULT_SETTINGS |-> [maxLeads |-> 50000, defaultLeads |-> 100,
                                          timeout |-> 3600000],
                    API |-> [baseUrl |-> "https://api.apify.com/v2", timeout |-> 30000],
                    SECURITY |-> [allowedOrigins |-> <<"*">>,
                                  rateLimitPerMinute |-> 10]]]
    ELSE [status |-> 405, body |-> [t |-> "error", error |-> "Method not allowed"]]

InitConfig ==
    /\ InitOrch /\ emailWebhookUrl = FALSE /\ CodecOff
    /\ cfgEnv \in {e \in Envs \X Envs : SameButSecrets(e[1], e[2])}
    /\ cfgReq \in ConfigMethods
    /\ cfgRes = [i \in 1..2 |-> NoData]
    /\ cleanIn = <<>> /\ cleanOut = NoData
    /\ CallOff /\ ActorOff

\* The request is served in environment i.
ConfigRequest(i) ==
    /\ cfgRes[i] = NoData
    /\ cfgRes' = [cfgRes EXCEPT ![i] = ConfigResponse(cfgReq, cfgEnv[i])]
    /\ UNCHANGED <<orchVars, codecVars, cfgEnv, cfgReq, cleanIn, cleanOut,
                   callVars, actorVars>>

NextConfig == \E i \in 1..2 : ConfigRequest(i)

SpecConfig == InitConfig /\ [][NextConfig]_vars

\* ------------------------------------------------------------------------
\* Actor script (stripe-webhook.js:386-682): cleanData
\* ------------------------------------------------------------------------

\* JSON values: null, strings, numbers (above), objects as functions from
\* their keys, arrays as sequences.
JNull == [t |-> "null"]
JObj(f) == [t |-> "object", v |-> f]
JArr(q) == [t |-> "array", v |-> q]

\* stripe-webhook.js:662, 671  value === null || value === undefined || value === ''
IsBlank(value) == value = JNull \/ value = Undefined \/ value = JStr(<<>>)

\* The check of line 666 left out: a nested object is kept even when
\* cleaning left nothing in it.
RECURSIVE cleanData_KeepsEmptied(_)
cleanData_KeepsEmptied(data) ==
    [i \in 1..Len(data) |->
        LET item == data[i]
            cleanedNested(key) == cleanData_KeepsEmptied(<<item[key].v>>)[1]
            cleanedArray(key) == SelectSeq(item[key].v, LAMBDA v : ~IsBlank(v))
            kept == {key \in DOMAIN item :
                        /\ ~IsBlank(item[key])
                        /\ item[key].t = "array" => Len(cleanedArray(key)) > 0}
        IN [key \in kept |->
               CASE item[key].t = "object" -> JObj(cleanedNested(key))
                 [] item[key].t = "array"  -> JArr(cleanedArray(key))
                 [] OTHER                  -> item[key]]]

\* stripe-webhook.js:654-683  cleanData: each item of data, cleaned
RECURSIVE cleanData(_)
cleanData(data) ==
    [i \in 1..Len(data) |->
        LET item == data[i]
            cleanedNested(key) == cleanData(<<item[key].v>>)[1]
            cleanedArray(key) == SelectSeq(item[key].v, LAMBDA v : ~IsBlank(v))
            kept == {key \in DOMAIN item :
                        /\ ~IsBlank(item[key])
                        /\ item[key].t = "object" => DOMAIN cleanedNested(key) # {}
                        /\ item[key].t = "array" => Len(cleanedArray(key)) > 0}
        IN [key \in kept |->
               CASE item[key].t = "object" -> JObj(cleanedNested(key))
                 [] item[key].t = "array"  -> JArr(cleanedArray(key))
                 [] OTHER                  -> item[key]]]

\* Longest array among the items.
MaxSeqLen == 3

\* A key that the object does not have.
Absent == [t |-> "absent"]
Present(f) == [k \in {k \in DOMAIN f : f[k] # Absent} |-> f[k]]

STR_x == <<120>>

\* Elements of an array: blank ones, a number, and an array and an object
\* that themselves hold a null.
CleanElements ==
    {JNull, JStr(<<>>), JNum(1), JArr(<<JNull>>), JObj([e |-> JNull])}
CleanArrays == UNION {[1..n -> CleanElements] : n \in 0..MaxSeqLen}

\* Objects at the second and third level.
CleanLeaves == {JObj([e |-> JNull]), JObj([d |-> JStr(STR_x)]), JObj(<<>>)}
CleanNested ==
    {Present([d |-> d, e |-> e, g |-> g]) :
        d \in {Absent, JStr(STR_x), JStr(<<>>)},
        e \in {Absent, JNull},
        g \in {Absent} \cup CleanLeaves}

CleanItems ==
    {Present([a |-> a, b |-> b, c |-> c, f |-> f]) :
        a \in {JNull, JStr(STR_x)},
        b \in {JStr(<<>>), JNum(0)},
        c \in {Absent} \cup {JObj(o) : o \in CleanNested},
        f \in {Absent} \cup {JArr(q) : q \in CleanArrays}}

InitClean ==
    /\ InitOrch /\ emailWebhookUrl = FALSE /\ CodecOff
    /\ cfgEnv = <<>> /\ cfgReq = "" /\ cfgRes = <<>>
    /\ cleanIn \in CleanItems
    /\ cleanOut = <<>>
    /\ CallOff /\ ActorOff

\* stripe-webhook.js:654-683  the script cleans one item; cleanData builds a
\* new object (line 657) and assigns nothing into the item it reads
CleanStep ==
    /\ cleanOut = <<>>
    /\ cleanOut' = cleanData(<<cleanIn>>)
    /\ UNCHANGED <<orchVars, codecVars, cfgEnv, cfgReq, cfgRes, cleanIn,
                   callVars, actorVars>>

NextClean == CleanStep

SpecClean == InitClean /\ [][NextClean]_vars

\* ------------------------------------------------------------------------
\* cleanData, call by call.  The items the script hands to cleanData are
\* JavaScript objects, held by reference: an object's property may refer to
\* an object that contains it.  Each nested object costs one call of
\* cleanData inside the call that found it (line 662), and the engine throws
\* a RangeError when the calls in progress exceed its call stack.

\* Objects of the input.
MaxNodes == 3
Nodes == 1..MaxNodes

\* Calls of cleanData the engine's stack holds.
StackLimit == 5

\* An object of the input: a scalar property v and a property child that is
\* null (0) or refers to an object of the input.
InputHeaps ==
    [Nodes -> [v : {JNull, JStr(STR_x)}, child : {0} \cup Nodes]]

\* The object with the given reference has nothing under it that contains it.
RECURSIVE EndsWithin(_, _, _)
EndsWithin(heap, n, k) ==
    \/ heap[n].child = 0
    \/ k > 0 /\ EndsWithin(heap, heap[n].child, k - 1)

Acyclic(heap) == EndsWithin(heap, 1, MaxNodes)

\* The same object as a value, for an object that ends.
RECURSIVE ValueOf(_, _)
ValueOf(heap, n) ==
    [v |-> heap[n].v,
     child |-> IF heap[n].child = 0 THEN JNull
               ELSE JObj(ValueOf(heap, heap[n].child))]

\* The call of cleanData([item]) for the object item: entered, or back from
\* the nested call with cleanedNested.
Frame(n) == [node |-> n, back |-> FALSE, cleanedNested |-> <<>>]

InitCall ==
    /\ InitOrch /\ emailWebhookUrl = FALSE /\ CodecOff
    /\ cfgEnv = <<>> /\ cfgReq = "" /\ cfgRes = <<>>
    /\ cleanIn = <<>> /\ cleanOut = NoData
    /\ ActorOff
    /\ cdHeap \in InputHeaps
    /\ cdStack = <<Frame(1)>>
    /\ cdStatus = "running"
    /\ cdOut = <<>>

\* stripe-webhook.js:660-662  the value of a key is an object that is not an
\* array: cleanData([value]) is called, whatever the number of calls already
\* in progress; nothing compares a depth with a limit or remembers the
\* objects already entered.  The engine ends the run when no frame is left.
CleanDescend ==
    /\ cdStatus = "running"
    /\ LET top == cdStack[Len(cdStack)]
           value == cdHeap[top.node].child
       IN /\ ~top.back
          /\ value # 0
          /\ IF Len(cdStack) < StackLimit
                THEN /\ cdStack' = Append(cdStack, Frame(value))
                     /\ cdStatus' = cdStatus
                ELSE /\ cdStack' = <<>>
                     /\ cdStatus' = "RangeError"
    /\ UNCHANGED <<cdHeap, cdOut, orchVars, codecVars,
                   cfgEnv, cfgReq, cfgRes, cleanIn, cleanOut, actorVars>>

\* stripe-webhook.js:656-681  the call has gone through the keys of its item
\* and returns cleaned: v when it is not blank, child when the nested call
\* left something (line 663).
CleanReturn ==
    /\ cdStatus = "running"
    /\ LET n == Len(cdStack)
           top == cdStack[n]
           item == cdHeap[top.node]
           cleaned ==
               Present([v |-> IF IsBlank(item.v) THEN Absent ELSE item.v,
                        child |-> IF top.back /\ DOMAIN top.cleanedNested # {}
                                    THEN JObj(top.cleanedNested)
                                    ELSE Absent])
       IN /\ top.back \/ item.child = 0
          /\ IF n = 1
                THEN /\ cdStack' = <<>>
                     /\ cdStatus' = "returned"
                     /\ cdOut' = cleaned
                ELSE /\ cdStack' =
                          [SubSeq(cdStack, 1, n - 1) EXCEPT
                              ![n - 1] = [@ EXCEPT !.back = TRUE,
                                                   !.cleanedNested = cleaned]]
                     /\ UNCHANGED <<cdStatus, cdOut>>
    /\ UNCHANGED <<cdHeap, orchVars, codecVars,
                   cfgEnv, cfgReq, cfgRes, cleanIn, cleanOut, actorVars>>

NextCall == CleanDescend \/ CleanReturn

SpecCall == InitCall /\ [][NextCall]_vars

\* ------------------------------------------------------------------------
\* The actor script (Apify.main): one run, from its input to its exit.
\* CONFIG comes from ../config.js; the run reads CONFIG.WEBHOOK_URL from it.

STR_app_apollo_io ==   \* 'app.apollo.io'
    <<97, 112, 112, 46, 97, 112, 111, 108, 108, 111, 46, 105, 111>>
STR_https ==   \* 'https://'
    <<104, 116, 116, 112, 115, 58, 47, 47>>
STR_placeholder ==   \* 'https://your-webhook-endpoint.com/apollo-data'
    <<104, 116, 116, 112, 115, 58, 47, 47, 121, 111, 117, 114, 45, 119,
    101, 98, 104, 111, 111, 107, 45, 101, 110, 100, 112, 111, 105, 110,
    116, 46, 99, 111, 109, 47, 97, 112, 111, 108, 108, 111, 45, 100, 97,
    116, 97>>
STR_inputHook ==   \* 'https://in.io/r'
    <<104, 116, 116, 112, 115, 58, 47, 47, 105, 110, 46, 105, 111, 47, 114>>
STR_configHook ==   \* 'https://cf.io/r'
    <<104, 116, 116, 112, 115, 58, 47, 47, 99, 102, 46, 105, 111, 47, 114>>

\* new URL(s) throws unless s is an absolute URL; of the strings below the
\* absolute ones are those that start with a scheme.
IsAbsoluteUrl(s) == Len(s) > Len(STR_https) /\ SubSeq(s, 1, Len(STR_https)) = STR_https

\* Inputs of a run and values of CONFIG.WEBHOOK_URL.
ActorUrls == {Undefined, JStr(STR_x), JStr(STR_app_apollo_io)}
InputWebhookUrls == {Undefined, JStr(STR_x), JStr(STR_inputHook)}
ConfigWebhookUrls == {JStr(<<>>), JStr(STR_placeholder), JStr(STR_configHook)}

\* stripe-webhook.js:406-412  webhookUrl = CONFIG.WEBHOOK_URL when the input
\* has none; 424  finalWebhookUrl = webhookUrl || CONFIG.WEBHOOK_URL
FinalWebhookUrl(in) ==
    LET webhookUrl == IF in.webhookUrl = Undefined THEN in.configWebhookUrl
                      ELSE in.webhookUrl
    IN IF Truthy(webhookUrl) THEN webhookUrl ELSE in.configWebhookUrl

\* stripe-webhook.js:415-435  the checks that throw before the workflow
InputRejected(in) ==
    \/ ~Truthy(in.url)
    \/ ~Includes(in.url.v, STR_app_apollo_io)
    \/ ~Truthy(FinalWebhookUrl(in))
    \/ FinalWebhookUrl(in) = JStr(STR_placeholder)
    \/ ~IsAbsoluteUrl(FinalWebhookUrl(in).v)

\* What Apify.call resolves to: a run with a dataset, a run without, null.
ApolloRuns ==
    {[t |-> "run", id |-> "run1", defaultDatasetId |-> "ds1"],
     [t |-> "run", id |-> "run1", defaultDatasetId |-> ""],
     JNull}

RunIdOf(apolloRun) == IF apolloRun.t = "run" THEN apolloRun.id ELSE "unknown"

\* What a dataset holds.
ScrapedItems == <<[a |-> JStr(STR_x), b |-> JStr(<<>>)], [a |-> JNull]>>
DataSets == {SubSeq(ScrapedItems, 1, n) : n \in 0..Len(ScrapedItems)}

\* What a call to the platform gives: items, or an error thrown.
Thrown == [t |-> "throw"]
Items(data) == [t |-> "items", v |-> data]
DatasetResults == {Items(data) : data \in DataSets} \cup {Thrown}

\* Outcomes of a request to the results webhook: axios.post resolves on a 2xx
\* answer only.
WebhookOutcomes == {"ok", "non2xx", "neterr"}

NoLocals == [apolloRun |-> JNull, scrapedData |-> <<>>, processedData |-> <<>>,
             error |-> ""]

otherThanActor ==
    <<orchVars, codecVars, cfgEnv, cfgReq, cfgRes, cleanIn, cleanOut, callVars>>

InitActor ==
    /\ InitOrch /\ emailWebhookUrl = FALSE /\ CodecOff
    /\ cfgEnv = <<>> /\ cfgReq = "" /\ cfgRes = <<>>
    /\ cleanIn = <<>> /\ cleanOut = NoData
    /\ CallOff
    /\ apc = "start"
    /\ aIn \in [url : ActorUrls, webhookUrl : InputWebhookUrls,
                configWebhookUrl : ConfigWebhookUrls, cleanOutput : BOOLEAN]
    /\ aLocal = NoLocals
    /\ aSent = <<>>

\* stripe-webhook.js:604-649  sendToWebhook: the request made, with what the
\* webhook answered; it throws unless the answer is 2xx
sendToWebhook(data, metadata, outcome) ==
    Append(aSent, [data |-> data, metadata |-> metadata, answer |-> outcome])

\* stripe-webhook.js:570-598  the catch of the workflow: the error is kept
\* for the notification
Catch(message) ==
    /\ apc' = "notify"
    /\ aLocal' = [aLocal EXCEPT !.error = message]

\* stripe-webhook.js:518-542  with the data in hand: nothing scraped, or the
\* data cleaned when the input asks for it
WithData(apolloRun, scrapedData) ==
    /\ aLocal' = [aLocal EXCEPT
                    !.apolloRun = apolloRun,
                    !.scrapedData = scrapedData,
                    !.processedData = IF aIn.cleanOutput
                                      THEN cleanData(scrapedData)
                                      ELSE scrapedData]
    /\ apc' = IF Len(scrapedData) = 0 THEN "sendEmpty" ELSE "send"

\* stripe-webhook.js:392-443  input and configuration are checked before the
\* try of line 445: a rejected run throws with nothing sent
ActorStart ==
    /\ apc = "start"
    /\ apc' = IF InputRejected(aIn) THEN "rejected" ELSE "call"
    /\ UNCHANGED <<aIn, aLocal, aSent, otherThanActor>>

\* stripe-webhook.js:449-464, 504-516  Apify.call resolves or throws
CallScraper(result) ==
    /\ apc = "call"
    /\ IF result.t = "throw"
       THEN Catch("Apify.call failed")
       ELSE /\ aLocal' = [aLocal EXCEPT !.apolloRun = result]
            /\ apc' = IF result.t = "run" /\ result.defaultDatasetId # ""
                      THEN "dataset" ELSE "own"
    /\ UNCHANGED <<aIn, aSent, otherThanActor>>

\* stripe-webhook.js:467-481  axios.get of the run's dataset
FetchDataset(result) ==
    /\ apc = "dataset"
    /\ IF result.t = "throw"
       THEN apc' = "client" /\ UNCHANGED aLocal
       ELSE WithData(aLocal.apolloRun, result.v)
    /\ UNCHANGED <<aIn, aSent, otherThanActor>>

\* stripe-webhook.js:482-491  the Apify client's listItems
ClientListItems(result) ==
    /\ apc = "client"
    /\ IF result.t = "throw"
       THEN apc' = "own" /\ UNCHANGED aLocal
       ELSE WithData(aLocal.apolloRun, result.v)
    /\ UNCHANGED <<aIn, aSent, otherThanActor>>

\* stripe-webhook.js:492-501, 507-515  the run's own dataset: openDataset,
\* getInfo, getData; any of them throwing ends in the catch of line 570
OwnDataset(result) ==
    /\ apc = "own"
    /\ IF result.t = "throw"
       THEN Catch("dataset unavailable")
       ELSE WithData(aLocal.apolloRun, result.v)
    /\ UNCHANGED <<aIn, aSent, otherThanActor>>

\* stripe-webhook.js:518-534  nothing scraped: an empty success payload, then
\* return
SendEmpty(outcome) ==
    /\ apc = "sendEmpty"
    /\ aSent' = sendToWebhook(<<>>,
                   [success |-> TRUE,
                    message |-> "Scraping completed but no data found",
                    totalRecords |-> 0,
                    runId |-> RunIdOf(aLocal.apolloRun)], outcome)
    /\ IF outcome = "ok"
       THEN apc' = "done" /\ UNCHANGED aLocal
       ELSE Catch("Webhook delivery failed")
    /\ UNCHANGED <<aIn, otherThanActor>>

\* stripe-webhook.js:544-562  the data goes to the results webhook
SendData(outcome) ==
    /\ apc = "send"
    /\ aSent' = sendToWebhook(aLocal.processedData,
                   [success |-> TRUE,
                    message |-> "Data scraped and sent automatically",
                    totalRecords |-> Len(aLocal.processedData),
                    runId |-> RunIdOf(aLocal.apolloRun)], outcome)
    /\ IF outcome = "ok"
       THEN apc' = "push" /\ UNCHANGED aLocal
       ELSE Catch("Webhook delivery failed")
    /\ UNCHANGED <<aIn, otherThanActor>>

\* stripe-webhook.js:564-570  Apify.pushData, inside the same try
PushData(ok) ==
    /\ apc = "push"
    /\ IF ok
       THEN apc' = "done" /\ UNCHANGED aLocal
       ELSE Catch("pushData failed")
    /\ UNCHANGED <<aIn, aSent, otherThanActor>>

\* stripe-webhook.js:573-597  the error notification, whose own failure is
\* logged; then the error is rethrown and the run fails
SendError(outcome) ==
    /\ apc = "notify"
    /\ aSent' = sendToWebhook(<<>>,
                   [success |-> FALSE,
                    message |-> "Automated scraping workflow failed",
                    error |-> aLocal.error,
                    totalRecords |-> 0,
                    runId |-> RunIdOf(aLocal.apolloRun)], outcome)
    /\ apc' = "failed"
    /\ UNCHANGED <<aIn, aLocal, otherThanActor>>

NextActor ==
    \/ ActorStart
    \/ \E result \in ApolloRuns \cup {Thrown} : CallScraper(result)
    \/ \E result \in DatasetResults : FetchDataset(result)
    \/ \E result \in DatasetResults : ClientListItems(result)
    \/ \E result \in DatasetResults : OwnDataset(result)
    \/ \E outcome \in WebhookOutcomes : SendEmpty(outcome)
    \/ \E outcome \in WebhookOutcomes : SendData(outcome)
    \/ \E ok \in BOOLEAN : PushData(ok)
    \/ \E outcome \in WebhookOutcomes : SendError(outcome)

SpecActor == InitActor /\ [][NextActor]_vars

\* ------------------------------------------------------------------------
\* Properties of the metadata codec (SpecCodec)
\* ------------------------------------------------------------------------

\* C5: for every URL the checkout validation accepts, rebuilding the URL from
\* metadata that still holds urlChunkCount and every chunk gives back exactly
\* the URL that was submitted.
\* Buffer.from(apolloUrl) encodes an unpaired surrogate as U+FFFD, so a URL
\* with one comes back changed: this does not hold of the code.
C5_RoundTrip ==
    cpc = "decoded" /\ ~ChunkMissing(cMeta) => cOut = JStr(cUrl)

\* The round trip does hold of every accepted URL that is well-formed UTF-16.
C5_WellFormedRoundTrip ==
    cpc = "decoded" /\ ~ChunkMissing(cMeta) /\ WellFormed(cUrl) => cOut = JStr(cUrl)

\* C6: when a chunk below urlChunkCount is missing from the metadata, the URL
\* carried forward is exactly the truncated copy in metadata.apolloUrl (the
\* first 450 code units and '...' for a long URL), never a decoding of the
\* chunks that are there, and it is at most 500 code units long.
C6_MissingChunkFallsBack ==
    cpc = "decoded" /\ ChunkMissing(cMeta)
        => /\ cOut = JStr(TruncateUrl(cUrl))
           /\ cOut = MetaGet(cMeta, "apolloUrl")
           /\ Len(cOut.v) <= MaxFieldLength

\* A URL longer than the truncation bound, in two chunks of which one is
\* missing, was rebuilt as its truncated copy.
C6_Witness ==
    /\ cpc = "decoded"
    /\ ChunkMissing(cMeta)
    /\ ChunkCountOf(cMeta) >= 2
    /\ \E i \in 0..(ChunkCountOf(cMeta) - 1) : ChunkKey(i) \in DOMAIN cMeta
    /\ Len(cUrl) > TruncateAt
    /\ cOut = JStr(Substring0(cUrl, TruncateAt) \o STR_ellipsis)

\* ------------------------------------------------------------------------
\* Properties of the pipeline
\* ------------------------------------------------------------------------

Completed(r) ==
    /\ r.method = "POST" /\ r.sig = "valid" /\ r.body = "json"
    /\ r.type = "checkout.session.completed"

JobsBy(d) == {j \in jobs : j.by = d}
NotifsBy(d) == {n \in notifs : n.by = d}
Wrote(d) == {o \in ops : o.by = d /\ o.op \in {"stagingDelete", "ledgerWrite"}}

\* C1: a verified payment-completed event whose session is in the ledger when
\* the handler checks it issues no job trigger and no notification, changes
\* neither the staging store nor the ledger, neither then nor in any later
\* step of that execution, and is answered with a success status.
C1_DuplicateIsNoOp ==
    [][\A d \in Deliveries :
         /\ ( /\ pc[d] = "idle" /\ pc'[d] # "idle"
              /\ Completed(req'[d])
              /\ req'[d].session \in ledger )
            => /\ UNCHANGED <<jobs, notifs, staging, ledger>>
               /\ pc'[d] = "ack"
               /\ run'[d].phase = "Deduplicated"
         /\ ( run[d].phase = "Deduplicated" /\ pc'[d] # pc[d] )
            => /\ UNCHANGED <<jobs, notifs, staging, ledger>>
               /\ pc'[d] \in {"done", "crashed"}
               /\ pc'[d] = "done" => resp'[d] = 200
      ]_vars

\* A redelivery for a session in the ledger was answered 200 and left no job,
\* no notification and no write behind.
C1_Witness ==
    \E d \in Deliveries :
       /\ Completed(req[d]) /\ req[d].session \in ledger
       /\ run[d].phase = "Deduplicated"
       /\ pc[d] = "done" /\ resp[d] = 200
       /\ JobsBy(d) = {} /\ NotifsBy(d) = {} /\ Wrote(d) = {}

\* C2: when a second delivery of the same payment-completed event is received
\* while the first is still being handled, the ledger check keeps the second
\* from triggering: the two executions issue exactly one job trigger.
\* The first execution writes the ledger only after its trigger and its
\* notification returned, so the second finds no entry: this does not hold of
\* the code.
C2_ConcurrentTriggerOnce ==
    [][\A d1, d2 \in Deliveries :
         ( /\ d1 # d2
           /\ pc[d1] \in {"trigger", "notify", "finalize"}
           /\ Completed(req[d1])
           /\ pc[d2] = "idle" /\ pc'[d2] # "idle"
           /\ req'[d2] = req[d1] )
         => Cardinality({j \in jobs' : j.by \in {d1, d2}}) = 1
      ]_vars

\* C3: a request whose signature is missing or does not verify, or whose body
\* cannot be read as an event, is answered with a client-error status; it
\* never reaches the orchestrator: no read or write of either store, no job
\* trigger, no notification.
C3_InvalidSignatureRejected ==
    \A d \in Deliveries :
       ( /\ pc[d] # "idle"
         /\ req[d].method = "POST"
         /\ req[d].sig \in {"mismatch", "missing"} \/ req[d].body = "malformed" )
       => /\ pc[d] = "done" /\ resp[d] = 400
          /\ run[d] = FreshRun
          /\ JobsBy(d) = {} /\ NotifsBy(d) = {}
          /\ {o \in ops : o.by = d} = {}

\* A forged payment-completed event for a session that exists, not yet in the
\* ledger and with its order still staged, was rejected.
C3_Witness ==
    \E d \in Deliveries :
       /\ req[d].sig = "mismatch" /\ req[d].type = "checkout.session.completed"
       /\ req[d].session \in SessionIds
       /\ req[d].session \notin ledger
       /\ staging[req[d].session].t = "order"
       /\ pc[d] = "done" /\ resp[d] = 400
       /\ jobs = {}

\* C4 (SpecLong): a verified payment-completed event whose session has no
\* readable Pending Order, is not in the ledger, and whose metadata holds
\* leads, email, urlChunkCount and every chunk, triggers exactly one job, and
\* the URL of that job is the URL submitted at checkout in full, not its
\* truncated copy.
C4_FallbackTriggersWithFullUrl ==
    \A d \in Deliveries :
       ( /\ pc[d] # "idle"
         /\ Completed(req[d])
         /\ req[d].drop \in {"", "apolloUrl"}
         /\ run[d].fallback )
       => /\ Cardinality(JobsBy(d)) = 1
          /\ \A j \in JobsBy(d) :
                /\ j.session = req[d].session
                /\ j.payload.url = JStr(LongUrl)
                /\ j.payload.url # JStr(TruncateUrl(LongUrl))

\* The Pending Order was never written, the metadata arrived whole, and the
\* job went out with the long URL.
C4_Witness ==
    \E d \in Deliveries :
       /\ Completed(req[d]) /\ req[d].drop = ""
       /\ run[d].fallback /\ run[d].faults = {}
       /\ \E j \in JobsBy(d) :
             /\ j.payload.url = JStr(LongUrl)
             /\ Len(j.payload.url.v) > TruncateAt
             /\ j.status = "accepted"

\* C7: the ledger starts empty, so IsProcessed(s) is false before the first
\* MarkProcessed(s); an entry is never removed, so it is true ever after; and
\* the ledger changes only by the MarkProcessed of one execution, which adds
\* that execution's session and no other.
C7_LedgerMonotonic ==
    /\ ledger = {}
    /\ [][ /\ ledger \subseteq ledger'
           /\ ledger' # ledger
              => \E d \in Deliveries :
                    /\ pc[d] = "finalize" /\ pc'[d] = "ack"
                    /\ ledger' = ledger \cup {req[d].session}
                    /\ ~isSessionProcessed(req[d].session)
                    /\ isSessionProcessed(req[d].session)'
       ]_vars

\* One session is in the ledger while the other, paid for and delivered, is
\* not.
C7_Witness ==
    \E s, t \in SessionIds :
       /\ s \in ledger /\ t \notin ledger
       /\ \E d \in Deliveries : Completed(req[d]) /\ req[d].session = t
       /\ \E d \in Deliveries : Op(d, "ledgerWrite", s) \in ops

\* C8: a session is in the ledger only if an execution for that session
\* wrote it after its job trigger was accepted and its notification was
\* attempted (answered, failed or skipped for lack of configuration).
C8_LedgerImpliesTrigger ==
    \A s \in ledger :
       \E d \in Deliveries :
          /\ req[d].session = s
          /\ Op(d, "ledgerWrite", s) \in ops
          /\ run[d].trig = "ok"
          /\ run[d].notif \in {"ok", "non2xx", "neterr", "skipped"}
          /\ \E j \in JobsBy(d) : j.session = s /\ j.status = "accepted"

\* An execution whose trigger was accepted and whose notification was sent
\* and answered wrote the ledger entry of its session.
C8_Witness ==
    \E s \in ledger :
       \E d \in Deliveries :
          /\ req[d].session = s
          /\ Op(d, "ledgerWrite", s) \in ops
          /\ run[d].trig = "ok"
          /\ \E n \in NotifsBy(d) : n.status = run[d].notif
          /\ \E j \in JobsBy(d) : j.status = "accepted"

\* C9: once the job trigger of an execution was accepted, whatever became of
\* the notification (delivered, answered with an error, connection failed, or
\* not configured), the execution goes on to delete the Pending Order and, if
\* the storage lets it, to write the ledger; the job stays triggered.
C9_NotificationNeverBlocks ==
    \A d \in Deliveries :
       ( run[d].trig = "ok" /\ pc[d] \in {"ack", "done"} )
       => /\ run[d].notif \in {"ok", "non2xx", "neterr", "skipped"}
          /\ Op(d, "stagingDelete", req[d].session) \in ops
          /\ "mark" \notin run[d].faults
             => /\ req[d].session \in ledger
                /\ Op(d, "ledgerWrite", req[d].session) \in ops
          /\ "delete" \notin run[d].faults => staging[req[d].session].t = "none"
          /\ \E j \in JobsBy(d) : j.status = "accepted"

\* The notification failed and the execution finished its bookkeeping.
C9_Witness ==
    \E d \in Deliveries :
       /\ run[d].notif \in {"non2xx", "neterr"}
       /\ \E n \in NotifsBy(d) : n.status = run[d].notif
       /\ pc[d] = "done" /\ resp[d] = 200
       /\ req[d].session \in ledger
       /\ staging[req[d].session].t = "none"
       /\ run[d].phase = "Finalized"

\* C10: when the job trigger fails (connection error or non-success answer),
\* the execution makes no second attempt, sends no notification, leaves the
\* Pending Order where it is and writes no ledger entry; a later delivery for
\* that session, finding the Pending Order, triggers the job again with the
\* URL and the lead count of the Pending Order.
C10_TriggerFailureLeavesOrder ==
    [][\A d \in Deliveries :
         /\ ( /\ pc[d] = "trigger" /\ pc'[d] \notin {"trigger", "crashed"}
              /\ \E j \in jobs' : j.by = d /\ j.status \in {"rejected", "failed"} )
            => /\ UNCHANGED <<notifs, staging, ledger, ops>>
               /\ Cardinality({j \in jobs' : j.by = d}) = 1
               /\ pc'[d] = "ack" /\ run'[d].trig = "fail"
         /\ ( run[d].trig = "fail" /\ pc'[d] # pc[d] )
            => /\ UNCHANGED <<jobs, notifs, staging, ledger, ops>>
               /\ pc'[d] \in {"done", "crashed"}
         /\ ( /\ pc[d] = "idle" /\ pc'[d] # "idle"
              /\ Completed(req'[d])
              /\ \E e \in Deliveries :
                    run[e].trig = "fail" /\ req[e].session = req'[d].session
              /\ req'[d].session \notin ledger
              /\ staging[req'[d].session].t = "order"
              /\ "read" \notin run'[d].faults )
            => \E j \in jobs' \ jobs :
                  /\ j.by = d /\ j.session = req'[d].session
                  /\ j.payload.url = staging[j.session].apolloUrl
                  /\ j.payload.url = JStr(ValidBody(j.session).apolloUrl)
                  /\ j.payload.totalRecords = staging[j.session].leads.v
                  /\ ~run'[d].fallback
      ]_vars

\* The trigger of the first delivery failed; the second delivery found the
\* Pending Order and its trigger went out and was accepted.
C10_Witness ==
    \E d, e \in Deliveries :
       /\ d < e /\ req[d].session = req[e].session
       /\ run[d].trig = "fail" /\ pc[d] = "done"
       /\ \E j \in JobsBy(d) : j.status \in {"rejected", "failed"}
       /\ NotifsBy(d) = {} /\ Wrote(d) = {}
       /\ ~run[e].fallback /\ run[e].trig = "ok"
       /\ \E j \in JobsBy(e) :
             j.status = "accepted" /\ j.payload.url = JStr(ValidBody(j.session).apolloUrl)

\* C11: a delivery whose job trigger failed (connection error or non-success
\* answer) is not answered as a successful one: the caller gets a status
\* outside 2xx, so that the event source delivers the event again.
\* handleSuccessfulPayment catches every error (line 225) and the handler
\* answers 200 whatever happened (line 130): this does not hold of the code.
C11_TriggerFailurePropagated ==
    \A d \in Deliveries :
       ( /\ pc[d] = "done"
         /\ \E j \in JobsBy(d) : j.status \in {"rejected", "failed"} )
       => resp[d] \notin 200..299

\* C12 (SpecLong): a verified payment-completed event handled on the fallback
\* path (no readable Pending Order) whose metadata lacks leads or email
\* triggers no job and no notification, writes no ledger entry, deletes no
\* staging record, and is answered 200.
C12_MissingFieldsAbort ==
    \A d \in Deliveries :
       ( /\ pc[d] # "idle"
         /\ Completed(req[d])
         /\ req[d].drop \in {"leads", "email"}
         /\ run[d].fallback )
       => /\ JobsBy(d) = {} /\ NotifsBy(d) = {} /\ Wrote(d) = {}
          /\ req[d].session \notin ledger
          /\ pc[d] \in {"ack", "done", "crashed"}
          /\ pc[d] = "done" => resp[d] = 200

\* An event without its email, for a session whose Pending Order was never
\* written, was answered 200 and nothing was triggered.
C12_Witness ==
    \E d \in Deliveries :
       /\ Completed(req[d]) /\ req[d].drop = "email"
       /\ run[d].fallback /\ run[d].faults = {}
       /\ run[d].phase = "RecoveryError"
       /\ pc[d] = "done" /\ resp[d] = 200
       /\ jobs = {} /\ ledger = {}

\* C13: when recovery fails (no Pending Order and the metadata lacks a
\* required field) and the notification channel is configured, the failure
\* has been reported to the channel by the time the event is answered.
\* Lines 150-153 log and return; sendEmailWebhook is called at line 215 only:
\* this does not hold of the code.
C13_RecoveryFailureReported ==
    \A d \in Deliveries :
       ( /\ run[d].phase = "RecoveryError"
         /\ emailWebhookUrl
         /\ pc[d] = "done" )
       => NotifsBy(d) # {}

\* C14: a storage error is fatal for the event: when reading the Pending
\* Order fails no job is triggered for that event, and when deleting the
\* Pending Order fails the session is not put in the ledger.
\* retrieveApolloUrl and cleanupApolloUrl catch the error themselves (lines
\* 64-67, 77-79) and the handler goes on: this does not hold of the code.
C14_StorageFailureFatal ==
    \A d \in Deliveries :
       /\ "read" \in run[d].faults => JobsBy(d) = {}
       /\ "delete" \in run[d].faults
          => Op(d, "ledgerWrite", req[d].session) \notin ops

\* C16: a verified event of another type than checkout.session.completed is
\* answered 200 and reaches no further: no staging-store or ledger access, no
\* job trigger, no notification; every execution that did any of these
\* served a verified checkout.session.completed event.
C16_OtherTypesIgnored ==
    \A d \in Deliveries :
       /\ ( /\ pc[d] # "idle"
            /\ req[d].method = "POST" /\ req[d].sig = "valid" /\ req[d].body = "json"
            /\ req[d].type # "checkout.session.completed" )
          => /\ pc[d] = "done" /\ resp[d] = 200
             /\ JobsBy(d) = {} /\ NotifsBy(d) = {}
             /\ {o \in ops : o.by = d} = {}
       /\ ( JobsBy(d) # {} \/ NotifsBy(d) # {} \/ {o \in ops : o.by = d} # {} )
          => Completed(req[d])

\* A verified payment_intent.succeeded event was answered 200 while a paid
\* session waited with its Pending Order, and nothing was touched.
C16_Witness ==
    \E d \in Deliveries :
       /\ req[d].sig = "valid" /\ req[d].body = "json"
       /\ req[d].type = "payment_intent.succeeded"
       /\ pc[d] = "done" /\ resp[d] = 200
       /\ run[d].phase = "Ignored"
       /\ \E s \in SessionIds : staging[s].t = "order"
       /\ jobs = {} /\ notifs = {} /\ ops = {}

\* C18: a job triggered from a Pending Order that was found carries that
\* order's fields as submitted at checkout, whatever the event's metadata:
\* its URL, its lead count, its email, and cleanOutput true exactly when the
\* customer asked for cleaning.
\* The Pending Order holds cleanOutput as a boolean and line 209 compares it
\* with the string 'true': this does not hold of the code.
C18_JobCarriesPendingOrder ==
    \A j \in jobs :
       ~run[j.by].fallback
       => /\ j.payload.url = JStr(ValidBody(j.session).apolloUrl)
          /\ j.payload.totalRecords = ValidBody(j.session).leads
          /\ j.payload.email = JStr(ValidBody(j.session).email)
          /\ j.payload.cleanOutput = ValidBody(j.session).cleanOutput

\* Everything but the cleaning flag does come from the Pending Order, and
\* the flag is false whatever the customer asked for.
C18_AllButCleanOutput ==
    \A j \in jobs :
       ~run[j.by].fallback
       => /\ j.payload.url = JStr(ValidBody(j.session).apolloUrl)
          /\ j.payload.totalRecords = ValidBody(j.session).leads
          /\ j.payload.email = JStr(ValidBody(j.session).email)
          /\ ~j.payload.cleanOutput

\* C19: a Pending Order changes only by being deleted, and only by an
\* execution for its session whose job trigger was accepted; when such an
\* execution is answered (it did not crash), its session has no Pending
\* Order and is in the ledger; deleting the Pending Order of a session that
\* has none changes nothing and raises no error.
\* An error of unlinkSync is swallowed and one of the ledger's writeFileSync
\* is caught at line 225, and the execution completes all the same: the
\* third part does not hold of the code.
C19_PendingOrderLifecycle ==
    [][\A s \in SessionIds :
         /\ ( staging[s].t = "order" /\ staging'[s] # staging[s] )
            => /\ staging'[s] = NoOrder
               /\ \E d \in Deliveries :
                     /\ req[d].session = s
                     /\ pc[d] = "finalize" /\ pc'[d] = "ack"
                     /\ run[d].trig = "ok"
                     /\ \E j \in JobsBy(d) : j.status = "accepted"
         /\ \A d \in Deliveries :
               /\ ( /\ req[d].session = s /\ run[d].trig = "ok"
                    /\ pc[d] = "ack" /\ pc'[d] = "done" )
                  => staging'[s].t = "none" /\ s \in ledger'
               /\ ( /\ req[d].session = s
                    /\ pc[d] = "finalize" /\ pc'[d] = "ack"
                    /\ staging[s].t = "none" )
                  => staging' = staging /\ "delete" \notin run'[d].faults
      ]_vars

\* The first and the last part of C19 do hold.
C19_DeletedOnlyAfterTrigger ==
    [][\A s \in SessionIds :
         /\ ( staging[s].t = "order" /\ staging'[s] # staging[s] )
            => /\ staging'[s] = NoOrder
               /\ \E d \in Deliveries :
                     /\ req[d].session = s
                     /\ pc[d] = "finalize" /\ pc'[d] = "ack"
                     /\ run[d].trig = "ok"
                     /\ \E j \in JobsBy(d) : j.status = "accepted"
         /\ \A d \in Deliveries :
               ( /\ req[d].session = s
                 /\ pc[d] = "finalize" /\ pc'[d] = "ack"
                 /\ staging[s].t = "none" )
               => staging' = staging /\ "delete" \notin run'[d].faults
      ]_vars

\* C15 (SpecLive): every verified payment-completed delivery whose processing
\* reached Deduplicated or Finalized is eventually answered 200, and no such
\* delivery is answered before its processing has come to an end
\* (Deduplicated, Finalized, or one of the error ends).
C15_AcknowledgedAfterTerminal ==
    /\ \A d \in Deliveries :
          ( Completed(req[d]) /\ run[d].phase \in {"Deduplicated", "Finalized"} )
             ~> ( pc[d] = "done" /\ resp[d] = 200 )
    /\ [](\A d \in Deliveries :
            ( Completed(req[d]) /\ resp[d] # 0 )
            => /\ pc[d] = "done"
               /\ run[d].phase \in {"Deduplicated", "Finalized", "Errored",
                                    "RecoveryError"})

\* One delivery was finalized and answered 200, a second was deduplicated and
\* answered 200.
C15_Witness ==
    \E d, e \in Deliveries :
       /\ run[d].phase = "Finalized" /\ pc[d] = "done" /\ resp[d] = 200
       /\ run[e].phase = "Deduplicated" /\ pc[e] = "done" /\ resp[e] = 200

\* ------------------------------------------------------------------------
\* Properties of the configuration endpoint (SpecConfig)
\* ------------------------------------------------------------------------

\* C17: in two environments that differ in secret values only (the token of
\* the job service, the payment key, the webhook signing secret), the same
\* request to the configuration endpoint gets the same response.
\* Line 26 puts process.env.APIFY_TOKEN in the response: this does not hold
\* of the code.
C17_ResponseIndependentOfSecrets ==
    ( cfgRes # <<>> /\ cfgRes[1] # NoData /\ cfgRes[2] # NoData )
       => cfgRes[1] = cfgRes[2]

\* The response does not depend on the payment key or the signing secret.
C17_IndependentOfPaymentSecrets ==
    ( /\ cfgRes # <<>> /\ cfgRes[1] # NoData /\ cfgRes[2] # NoData
      /\ cfgEnv[1].APIFY_TOKEN = cfgEnv[2].APIFY_TOKEN )
       => cfgRes[1] = cfgRes[2]

\* ------------------------------------------------------------------------
\* Properties of cleanData (SpecClean)
\* ------------------------------------------------------------------------

\* No entry of the object, at any depth of objects within objects, has a
\* blank value, an empty object or an empty array, and no array that is the
\* value of an entry has a blank element.
RECURSIVE IsClean(_)
IsClean(m) ==
    \A k \in DOMAIN m :
       /\ ~IsBlank(m[k])
       /\ m[k].t = "object" => DOMAIN m[k].v # {} /\ IsClean(m[k].v)
       /\ m[k].t = "array"
          => /\ Len(m[k].v) > 0
             /\ \A i \in 1..Len(m[k].v) : ~IsBlank(m[k].v[i])

\* The value leaves nothing behind: blank, an object all of whose entries
\* leave nothing behind, or an array of blank elements.
RECURSIVE Vanishes(_)
Vanishes(v) ==
    \/ IsBlank(v)
    \/ v.t = "object" /\ \A k \in DOMAIN v.v : Vanishes(v.v[k])
    \/ v.t = "array" /\ \A i \in 1..Len(v.v) : IsBlank(v.v[i])

\* The sequence without its blank elements.
RECURSIVE WithoutBlanks(_)
WithoutBlanks(q) ==
    IF q = <<>> THEN <<>>
    ELSE IF IsBlank(Head(q)) THEN WithoutBlanks(Tail(q))
    ELSE <<Head(q)>> \o WithoutBlanks(Tail(q))

\* out is in with nothing removed but what leaves nothing behind, and
\* nothing else changed.
RECURSIVE Faithful(_, _)
Faithful(in, out) ==
    /\ DOMAIN out = {k \in DOMAIN in : ~Vanishes(in[k])}
    /\ \A k \in DOMAIN out :
          CASE in[k].t = "object" -> out[k].t = "object" /\ Faithful(in[k].v, out[k].v)
            [] in[k].t = "array"  -> out[k] = JArr(WithoutBlanks(in[k].v))
            [] OTHER              -> out[k] = in[k]

\* {a: null, b: "", c: {d: "x", e: null}, f: [1, null, ""]}
NormalizeExample ==
    [a |-> JNull, b |-> JStr(<<>>),
     c |-> JObj([d |-> JStr(STR_x), e |-> JNull]),
     f |-> JArr(<<JNum(1), JNull, JStr(<<>>)>>)]

\* {c: {d: "x"}, f: [1]}
NormalizeExampleResult ==
    [c |-> JObj([d |-> JStr(STR_x)]), f |-> JArr(<<JNum(1)>>)]

\* C20 (SpecClean): the item cleanData returns is the item it was given with
\* every entry removed whose value is null, undefined or '', at every depth
\* of objects within objects, every nested object removed that cleaning left
\* empty, and every array that is the value of an entry filtered of its null,
\* undefined and '' elements and removed if nothing is left; nothing else is
\* changed, the example of the specification comes out as stated, and the
\* item given is as it was.
C20_Normalize ==
    /\ [](cleanOut # <<>>
            => /\ Len(cleanOut) = 1
               /\ IsClean(cleanOut[1])
               /\ Faithful(cleanIn, cleanOut[1])
               /\ cleanIn = NormalizeExample => cleanOut[1] = NormalizeExampleResult)
    /\ [][cleanIn' = cleanIn]_vars

\* The example of the specification went through cleanData.
C20_Witness ==
    /\ cleanIn = NormalizeExample
    /\ cleanOut = <<NormalizeExampleResult>>

\* An object two levels down that cleaning left empty took the object
\* holding it along.
C20_NestedWitness ==
    /\ cleanOut # <<>>
    /\ "c" \in DOMAIN cleanIn /\ "c" \notin DOMAIN cleanOut[1]
    /\ "g" \in DOMAIN cleanIn["c"].v
    /\ "e" \in DOMAIN cleanIn["c"].v["g"].v

\* ------------------------------------------------------------------------
\* Properties of cleanData's recursion (SpecCall)

\* C21: cleanData caps its recursion depth: on any input, deeply nested or
\* cyclic, it stops descending and returns instead of recursing until the
\* engine's call stack is exhausted.
\* cleanData has no depth parameter and no set of visited objects: on an
\* object that contains itself every call makes another, and the run ends
\* in the engine's RangeError.  This does not hold of the code.
C21_RecursionCapped ==
    cdStatus # "RangeError"

\* On an input that ends within the engine's stack the calls do return, with
\* the object that cleanData gives for the input as a value.
C21_AcyclicReturns ==
    /\ cdStatus = "RangeError" => ~Acyclic(cdHeap)
    /\ cdStatus = "returned" =>
          /\ Acyclic(cdHeap)
          /\ cdOut = cleanData(<<ValueOf(cdHeap, 1)>>)[1]

C21_ReturnedWitness ==
    cdStatus = "returned" /\ cdHeap[1].child # 0 /\ DOMAIN cdOut = {"v", "child"}

\* ------------------------------------------------------------------------
\* Properties of redelivery and of concurrent sessions (Spec, SpecSerial)

\* Jobs the job service accepted for session s.
AcceptedJobs(s) == {j \in jobs : j.session = s /\ j.status = "accepted"}

\* C22: an execution that crashes after its trigger was accepted and before
\* the ledger is written leaves no ledger entry, so a redelivery of the same
\* event is not deduplicated; and a state with two accepted job triggers for
\* one session is reached only that way: one of the triggering executions
\* crashed, or failed, between its trigger and its ledger write.
\* Two overlapping deliveries both pass the ledger check and both trigger,
\* with neither crashing nor failing (C2): the second part does not hold of
\* the code.
C22_TwoTriggersOnlyAfterCrash ==
    /\ \A d1, d2 \in Deliveries :
          ( /\ d1 # d2 /\ req[d2] = req[d1] /\ Completed(req[d1])
            /\ pc[d1] = "crashed" /\ run[d1].trig = "ok"
            /\ Wrote(d1) = {} /\ pc[d2] # "idle"
            /\ \A o \in ops : o.op = "ledgerWrite" => o.by = d2 )
          => /\ run[d2].phase # "Deduplicated"
             /\ run[d2].phase # "RecoveryError" => JobsBy(d2) # {}
    /\ \A s \in SessionIds :
          Cardinality(AcceptedJobs(s)) >= 2
          => \E j \in AcceptedJobs(s) :
                pc[j.by] = "crashed" \/ run[j.by].phase = "Errored"

\* The first part of C22 does hold: after a crash between the accepted
\* trigger and the ledger write, the redelivery finds no entry and triggers.
C22_CrashThenRedeliveryTriggers ==
    \A d1, d2 \in Deliveries :
       ( /\ d1 # d2 /\ req[d2] = req[d1] /\ Completed(req[d1])
         /\ pc[d1] = "crashed" /\ run[d1].trig = "ok"
         /\ Wrote(d1) = {} /\ pc[d2] # "idle"
         /\ \A o \in ops : o.op = "ledgerWrite" => o.by = d2 )
       => /\ run[d2].phase # "Deduplicated"
          /\ run[d2].phase # "RecoveryError" => JobsBy(d2) # {}

C22_CrashWitness ==
    \E d1, d2 \in Deliveries :
       /\ d1 # d2 /\ req[d2] = req[d1] /\ Completed(req[d1])
       /\ pc[d1] = "crashed" /\ run[d1].trig = "ok" /\ Wrote(d1) = {}
       /\ pc[d2] = "done"
       /\ Cardinality(AcceptedJobs(req[d1].session)) = 2

\* C23: two events for different sessions, handled in any interleaving with
\* nothing failing: every read, delete and write of an execution is on its
\* own session's key; each session gets exactly one job, carrying its own
\* order's URL, lead count, email and cleaning flag; and the stores end as
\* after handling one event and then the other (no Pending Order left, both
\* sessions in the ledger).
\* The job of the session that asked for cleaning carries cleanOutput false
\* (C18): that part does not hold of the code.
C23_SessionsDoNotInterfere ==
    \A d1, d2 \in Deliveries :
       ( /\ Completed(req[d1]) /\ Completed(req[d2])
         /\ req[d1].session # req[d2].session
         /\ \A d \in {d1, d2} :
               /\ pc[d] = "done" /\ run[d].phase = "Finalized"
               /\ run[d].faults = {} /\ ~run[d].fallback )
       => /\ \A o \in ops : o.key = req[o.by].session
          /\ \A d \in {d1, d2} :
                /\ Cardinality(JobsBy(d)) = 1
                /\ \A j \in JobsBy(d) :
                      /\ j.session = req[d].session
                      /\ j.status = "accepted"
                      /\ j.payload.url = JStr(ValidBody(j.session).apolloUrl)
                      /\ j.payload.totalRecords = ValidBody(j.session).leads
                      /\ j.payload.email = JStr(ValidBody(j.session).email)
                      /\ j.payload.cleanOutput = ValidBody(j.session).cleanOutput
          /\ \A s \in SessionIds :
                /\ Cardinality({j \in jobs : j.session = s}) = 1
                /\ staging[s] = NoOrder
                /\ s \in ledger

\* Everything of C23 but the cleaning flag does hold: the executions touch
\* only their own session's keys, each session gets one job with its own
\* URL, lead count and email, and the stores end as after serial handling.
C23_OwnKeysOneJobSerialStores ==
    \A d1, d2 \in Deliveries :
       ( /\ Completed(req[d1]) /\ Completed(req[d2])
         /\ req[d1].session # req[d2].session
         /\ \A d \in {d1, d2} :
               /\ pc[d] = "done" /\ run[d].phase = "Finalized"
               /\ run[d].faults = {} /\ ~run[d].fallback )
       => /\ \A o \in ops : o.key = req[o.by].session
          /\ \A d \in {d1, d2} :
                /\ Cardinality(JobsBy(d)) = 1
                /\ \A j \in JobsBy(d) :
                      /\ j.session = req[d].session
                      /\ j.status = "accepted"
                      /\ j.payload.url = JStr(ValidBody(j.session).apolloUrl)
                      /\ j.payload.totalRecords = ValidBody(j.session).leads
                      /\ j.payload.email = JStr(ValidBody(j.session).email)
          /\ \A s \in SessionIds :
                /\ Cardinality({j \in jobs : j.session = s}) = 1
                /\ staging[s] = NoOrder
                /\ s \in ledger

\* A step of an execution changes no other session's Pending Order or
\* ledger entry.
C23_StepsTouchOwnSession ==
    [][\A d \in Deliveries :
         pc'[d] # pc[d] /\ pc[d] # "idle"
         => \A s \in SessionIds :
               s # req[d].session
               => /\ staging'[s] = staging[s]
                  /\ (s \in ledger') = (s \in ledger)
      ]_vars

C23_BothSessionsWitness ==
    \E d1, d2 \in Deliveries :
       /\ Completed(req[d1]) /\ Completed(req[d2])
       /\ req[d1].session # req[d2].session
       /\ \A d \in {d1, d2} :
             /\ pc[d] = "done" /\ run[d].phase = "Finalized"
             /\ run[d].faults = {} /\ ~run[d].fallback

\* C24 (SpecSerial): with no crash and no storage failure, whatever the
\* deliveries of payment-completed events for one session, one after the
\* other, the job service accepts at most one job trigger for the session,
\* and every delivery that follows an accepted trigger ends Deduplicated.
\* A 2xx answer whose body response.json() cannot read makes the accepted
\* trigger an error to the handler (lines 278-296, 225): no ledger entry is
\* written and the next delivery triggers again.  This does not hold of the
\* code.
C24_SerialTriggersOnce ==
    /\ \A s \in SessionIds : Cardinality(AcceptedJobs(s)) <= 1
    /\ \A d1, d2 \in Deliveries :
          ( /\ d1 < d2 /\ Completed(req[d1]) /\ Completed(req[d2])
            /\ req[d1].session = req[d2].session
            /\ \E j \in JobsBy(d1) : j.status = "accepted" )
          => run[d2].phase = "Deduplicated"

\* Counting the triggers the handler saw succeed, C24 does hold.
C24_SerialHandledTriggerOnce ==
    /\ \A s \in SessionIds :
          Cardinality({d \in Deliveries :
                          req[d].session = s /\ run[d].trig = "ok"}) <= 1
    /\ \A d1, d2 \in Deliveries :
          ( /\ d1 < d2 /\ Completed(req[d1]) /\ Completed(req[d2])
            /\ req[d1].session = req[d2].session
            /\ run[d1].trig = "ok" )
          => run[d2].phase = "Deduplicated"

C24_SerialWitness ==
    \E d1, d2 \in Deliveries :
       /\ d1 < d2 /\ Completed(req[d1]) /\ Completed(req[d2])
       /\ req[d1].session = req[d2].session
       /\ run[d1].trig = "ok" /\ pc[d2] = "done"
       /\ run[d2].phase = "Deduplicated"

\* ------------------------------------------------------------------------
\* Properties of the actor script (SpecActor)

\* Requests of the run that the results webhook answered 2xx.
Delivered(i) == aSent[i].answer = "ok"

\* C25: a run of the actor script never delivers both a success payload and
\* a failure payload to the results webhook: once a payload with success
\* true has been delivered, the run sends no payload with success false,
\* whatever fails afterwards.
\* Apify.pushData (line 565) runs after the delivery inside the same try: when
\* it throws, the catch of line 570 sends the error notification.  This does
\* not hold of the code.
C25_NeverSuccessThenFailure ==
    \A i, j \in DOMAIN aSent :
       i < j /\ aSent[i].metadata.success /\ Delivered(i)
       => aSent[j].metadata.success

\* The failure of the backup is the only way to both payloads, and a run
\* sends at most two requests, the second one the error notification.
C25_OnlyWhenBackupFails ==
    /\ Len(aSent) <= 2
    /\ \A i, j \in DOMAIN aSent :
          i < j => /\ aSent[i].metadata.success /\ ~aSent[j].metadata.success
                   /\ Delivered(i) => aLocal.error = "pushData failed"
    /\ apc = "rejected" => aSent = <<>>

C25_DeliveredWitness ==
    /\ apc = "done" /\ Len(aSent) = 1 /\ Delivered(1)
    /\ aSent[1].metadata.success /\ Len(aSent[1].data) > 0

====
